---- MODULE Spec2Model ----
(***************************************************************************)
(* LinguaFlow: a model of the application state store (App), the AI        *)
(* service layer (services/geminiService) and the view components that     *)
(* drive them.                                                             *)
(*                                                                         *)
(* Strings that the code only compares or copies are modelled as TLA+      *)
(* strings.  A text that the code scans (a model response) is a sequence   *)
(* of tokens, see the service section.                                     *)
(***************************************************************************)
EXTENDS Integers, Sequences, FiniteSets, TLC

VARIABLES
    \* ---- App (state store) ----
    savedWords,     \* App.savedWords: sequence of SavedWord, newest first
    crashed,        \* TRUE once a state updater threw (React unmounts the tree)
    now,            \* Date.now(), a non-decreasing clock
    lastOp,         \* history: the last store handler that ran, with the collection before it
    \* ---- service layer, called as functions ----
    last,           \* history: the last Domain Operation call and its outcome
    \* ---- view layer over the service layer ----
    aiSettings,     \* App.aiSettings
    viewLast,       \* history: the last view handler that started a Domain Operation
    \* ---- ExamMode ----
    stage, questions, currentQIndex, answers,
    examResults,    \* App.examResults, newest first
    \* ---- App (save effect) ----
    articles,       \* App.articles: sequence of article ids, newest first
    notes,          \* App.notes: sequence of note ids, newest first
    lang,           \* App.lang
    userStats,      \* App.userStats
    pending,        \* the assessLevel calls awaited by updateLevel, oldest first
    effect,         \* history: the last App handler and what the save effect did
    storage,        \* localStorage: the six lf_ entries
    mounted,        \* TRUE once App has mounted and its mount effects have run
    race,           \* history: overtaken = how many of the oldest assessments in
                    \* flight were started before one that has completed; newest =
                    \* the level returned by the latest started completed assessment
    \* ---- QuizPopup ----
    quiz,           \* the popup's state, its quiz timer, the generateQuizForWord
                    \* calls awaited and the timeouts of an answered quiz
    \* ---- ArticleReader ----
    reader,         \* selectedWord, definition, loading and the defineWord calls awaited
    \* ---- TutorChat ----
    chat,           \* messages, input, isTyping and the chatWithTutor calls awaited
    \* ---- word lookups in flight ----
    lookups         \* QuickTranslator's and ArticleReader's defineWord calls

storeVars == <<savedWords, crashed, now, lastOp>>
svcVars   == <<last>>
viewVars  == <<aiSettings, viewLast>>
examVars  == <<stage, questions, currentQIndex, answers, examResults>>
compVars  == <<chat, reader, quiz>>
appVars   == <<articles, notes, lang, userStats, pending, effect, storage, mounted,
               race, lookups, compVars>>
vars      == <<savedWords, crashed, now, lastOp, last, aiSettings, viewLast,
               stage, questions, currentQIndex, answers, examResults,
               articles, notes, lang, userStats, pending, effect, storage, mounted,
               race, lookups, chat, reader, quiz>>

(***************************************************************************)
(* Bounds                                                                  *)
(***************************************************************************)
MaxWords  == 2      \* saved words kept in the collection
MaxNow    == 2      \* clock ticks
MaxReview == 2      \* cap of a review counter
MaxSaved  == 31     \* saved words of the long collections

(***************************************************************************)
(* Values shared by the sections                                           *)
(***************************************************************************)
\* JavaScript's undefined (a missing property, an omitted argument)
Undefined == "<undefined>"

(***************************************************************************)
(* App: the saved-word collection                                          *)
(***************************************************************************)
\* word texts a definition can carry; Undefined when the parsed response had
\* no "word" property (defineWord returns the parsed object unchecked).
\* Two words, one of them in two spellings.
WordTexts == {"apple", "Apple", "run"}
DefTags   == {"d1", "d2"}       \* stands for the other WordDefinition fields

\* String.prototype.toLowerCase on the word texts
toLowerCase(s) ==
    CASE s = "Apple" -> "apple"
      [] s = "APPLE" -> "apple"
      [] s = "Run"   -> "run"
      [] OTHER       -> s

SavedWord(id, word, def, reviewCount) ==
    [id |-> id, word |-> word, def |-> def, reviewCount |-> reviewCount]

\* prev.find(w => w.word.toLowerCase() === word.word.toLowerCase()):
\* scans from the front; calling toLowerCase on undefined throws a TypeError.
\* Result: "found", "none" or "throw".
RECURSIVE findDuplicate(_, _)
findDuplicate(prev, word) ==
    IF prev = <<>> THEN "none"
    ELSE IF Head(prev).word = Undefined \/ word.word = Undefined THEN "throw"
    ELSE IF toLowerCase(Head(prev).word) = toLowerCase(word.word) THEN "found"
    ELSE findDuplicate(Tail(prev), word)

\* the updater of handleSaveWord
handleSaveWord_caseSensitive(prev, word) ==
    IF \E i \in 1..Len(prev) : prev[i].word = word.word THEN prev
    ELSE <<word>> \o prev
handleSaveWord_replace(prev, word) ==
    IF findDuplicate(prev, word) = "found"
    THEN [i \in 1..Len(prev) |->
             IF toLowerCase(prev[i].word) = toLowerCase(word.word) THEN word ELSE prev[i]]
    ELSE <<word>> \o prev
handleSaveWord(prev, word) ==
    IF findDuplicate(prev, word) = "found" THEN prev ELSE <<word>> \o prev

\* the updater of handleQuizResult
handleQuizResult_noFloor(prev, wordId, success) ==
    [i \in 1..Len(prev) |->
        IF prev[i].id = wordId
        THEN [prev[i] EXCEPT !.reviewCount = IF success THEN @ + 1 ELSE @ - 1]
        ELSE prev[i]]
handleQuizResult(prev, wordId, success) ==
    [i \in 1..Len(prev) |->
        IF prev[i].id = wordId
        THEN [prev[i] EXCEPT !.reviewCount =
                 IF success THEN @ + 1 ELSE IF @ - 1 > 0 THEN @ - 1 ELSE 0]
        ELSE prev[i]]

\* the updater of handleDeleteWord
RECURSIVE handleDeleteWord(_, _)
handleDeleteWord(prev, id) ==
    IF prev = <<>> THEN <<>>
    ELSE IF Head(prev).id # id THEN <<Head(prev)>> \o handleDeleteWord(Tail(prev), id)
    ELSE handleDeleteWord(Tail(prev), id)

\* distinct words to fill a long collection with, in the order they get saved
WordNames == <<
    "w01", "w02", "w03", "w04", "w05", "w06", "w07", "w08", "w09", "w10",
    "w11", "w12", "w13", "w14", "w15", "w16", "w17", "w18", "w19", "w20",
    "w21", "w22", "w23", "w24", "w25", "w26", "w27", "w28", "w29", "w30",
    "w31", "w32", "w33", "w34", "w35", "w36", "w37", "w38", "w39", "w40" >>

\* the collection after n distinct words were saved one after the other
RECURSIVE SavedList(_)
SavedList(n) ==
    IF n = 0 THEN <<>>
    ELSE handleSaveWord(SavedList(n - 1), SavedWord(n, WordNames[n], "d1", 0))

NoOp == [op |-> "none", prev |-> <<>>, word |-> SavedWord(0, Undefined, "d1", 0),
         id |-> 0, success |-> FALSE]

StoreInit ==
    /\ savedWords = <<>>
    /\ crashed = FALSE
    /\ now = 1
    /\ lastOp = NoOp

\* time passes
Tick ==
    /\ ~crashed
    /\ now < MaxNow
    /\ now' = now + 1
    /\ UNCHANGED <<savedWords, crashed, lastOp>>

\* a component calls onSaveWord with a SavedWord it built from a definition:
\* id is Date.now() at the time it was built, reviewCount is 0
SaveWord ==
    /\ ~crashed
    /\ \E id \in 1..now, text \in WordTexts \cup {Undefined}, def \in DefTags :
         LET word == SavedWord(id, text, def, 0) IN
         /\ lastOp' = [NoOp EXCEPT !.op = "save", !.prev = savedWords, !.word = word]
         /\ IF findDuplicate(savedWords, word) = "throw"
            THEN /\ crashed' = TRUE
                 /\ UNCHANGED savedWords
            ELSE /\ Len(handleSaveWord(savedWords, word)) <= MaxWords
                 /\ savedWords' = handleSaveWord(savedWords, word)
                 /\ UNCHANGED crashed
    /\ UNCHANGED now

\* QuizPopup reports the outcome of a quiz on the word with the given id
QuizResult ==
    /\ ~crashed
    /\ \E wordId \in 1..MaxNow, success \in BOOLEAN :
         /\ \A i \in 1..Len(savedWords) :
               (savedWords[i].id = wordId /\ success) => savedWords[i].reviewCount < MaxReview
         /\ savedWords' = handleQuizResult(savedWords, wordId, success)
         /\ lastOp' = [NoOp EXCEPT !.op = "quiz", !.prev = savedWords,
                                   !.id = wordId, !.success = success]
    /\ UNCHANGED <<crashed, now>>

\* Notebook deletes the word with the given id
DeleteWord ==
    /\ ~crashed
    /\ \E id \in 1..MaxNow :
         /\ savedWords' = handleDeleteWord(savedWords, id)
         /\ lastOp' = [NoOp EXCEPT !.op = "delete", !.prev = savedWords, !.id = id]
    /\ UNCHANGED <<crashed, now>>

(***************************************************************************)
(* Service layer: texts, JSON, settings                                    *)
(*                                                                         *)
(* A response text is a sequence of tokens:                                *)
(*   "F"  the fence ```            "J"  the letters json                   *)
(*   "W"  one whitespace character "B1" prose that is not JSON             *)
(*   any other token is the text of one JSON document (DocTokens).         *)
(***************************************************************************)
MaxTextLen == 2     \* length of the free-form response texts

DocTokens == {"{}", "[]", "A1", "A2", "Ax", "Anull", "7", "null",
              "Qok", "Qoob", "Qneg", "Qwrong", "Qnoidx", "Dfull", "Dnolevel"}
Tokens    == {"F", "J", "W", "B1"} \cup DocTokens

\* JavaScript values
JUndefined      == [type |-> "undefined"]
JNull           == [type |-> "null"]
JString(s)      == [type |-> "string", str |-> s]
JNumber(n)      == [type |-> "number", num |-> n]
JArray(items)   == [type |-> "array", items |-> items]
JObject(fields) == [type |-> "object", fields |-> fields]

\* property access  v.name : undefined when the property is absent
Get(v, name) ==
    IF v.type = "object" /\ name \in DOMAIN v.fields THEN v.fields[name] ELSE JUndefined
\* property access on null or undefined throws a TypeError
CanRead(v) == v.type \notin {"null", "undefined"}
Truthy(v) ==
    /\ v.type \notin {"null", "undefined"}
    /\ v.type = "string" => v.str # ""
    /\ v.type = "number" => v.num # 0

\* the value each document token stands for
JsonValue(tok) ==
    CASE tok = "{}"     -> JObject(<<>>)
      [] tok = "[]"     -> JArray(<<>>)
      [] tok = "A1"     -> JArray(<<JObject([title |-> JString("A"), content |-> JString("B C D")])>>)
      [] tok = "A2"     -> JArray(<<JObject([title |-> JString("A"), content |-> JString("B C D")]),
                                    JObject([title |-> JString("T2"), content |-> JString("C2")])>>)
      [] tok = "Ax"     -> JArray(<<JObject([title |-> JString("A")])>>)
      [] tok = "Anull"  -> JArray(<<JNull>>)
      [] tok = "7"      -> JNumber(7)
      [] tok = "null"   -> JNull
      [] tok = "Qok"    -> JObject([question |-> JString("q"),
                                    options |-> JArray(<<JString("cat"), JString("Apple"),
                                                         JString("run"), JString("sun")>>),
                                    correctOptionIndex |-> JNumber(1)])
      [] tok = "Qoob"   -> JObject([question |-> JString("q"),
                                    options |-> JArray(<<JString("cat"), JString("apple"),
                                                         JString("run"), JString("sun")>>),
                                    correctOptionIndex |-> JNumber(4)])
      [] tok = "Qneg"   -> JObject([question |-> JString("q"),
                                    options |-> JArray(<<JString("cat"), JString("apple"),
                                                         JString("run"), JString("sun")>>),
                                    correctOptionIndex |-> JNumber(-1)])
      [] tok = "Qwrong" -> JObject([question |-> JString("q"),
                                    options |-> JArray(<<JString("cat"), JString("apple"),
                                                         JString("run"), JString("sun")>>),
                                    correctOptionIndex |-> JNumber(0)])
      [] tok = "Qnoidx" -> JObject([question |-> JString("q"),
                                    options |-> JArray(<<JString("apple"), JString("cat")>>)])
      [] tok = "Dfull"  -> JObject([word |-> JString("apple"),
                                    chineseMeaning |-> JString("pingguo"),
                                    englishDefinition |-> JString("a round fruit"),
                                    level |-> JString("A1")])
      [] tok = "Dnolevel" -> JObject([word |-> JString("apple"),
                                      chineseMeaning |-> JString("pingguo"),
                                      englishDefinition |-> JString("a round fruit")])

\* String.prototype.trim
RECURSIVE trimStart(_)
trimStart(t) == IF t # <<>> /\ Head(t) = "W" THEN trimStart(Tail(t)) ELSE t
RECURSIVE trimEnd(_)
trimEnd(t) ==
    IF t # <<>> /\ t[Len(t)] = "W" THEN trimEnd(SubSeq(t, 1, Len(t) - 1)) ELSE t
trim(t) == trimEnd(trimStart(t))

\* clean.replace(/\s*```$/, ''): drops a closing fence at the very end,
\* with the whitespace before it
stripClosingFence(t) ==
    IF t # <<>> /\ t[Len(t)] = "F" THEN trimEnd(SubSeq(t, 1, Len(t) - 1)) ELSE t

startsWith(t, prefix) ==
    Len(t) >= Len(prefix) /\ SubSeq(t, 1, Len(prefix)) = prefix

\* cleanJsonText(text): text is a sequence of tokens
cleanJsonText_noEmptyDefault(text) ==
    LET clean == trim(text) IN
    IF startsWith(clean, <<"F", "J">>)
    THEN stripClosingFence(trimStart(SubSeq(clean, 3, Len(clean))))
    ELSE IF startsWith(clean, <<"F">>)
    THEN stripClosingFence(trimStart(SubSeq(clean, 2, Len(clean))))
    ELSE clean
cleanJsonText_untaggedOnly(text) ==
    IF text = <<>> THEN <<"{}">>
    ELSE LET clean == trim(text) IN
         IF startsWith(clean, <<"F">>)
         THEN stripClosingFence(trimStart(SubSeq(clean, 2, Len(clean))))
         ELSE clean
cleanJsonText(text) ==
    IF text = <<>> THEN <<"{}">>
    ELSE LET clean == trim(text) IN
         IF startsWith(clean, <<"F", "J">>)
         THEN stripClosingFence(trimStart(SubSeq(clean, 3, Len(clean))))
         ELSE IF startsWith(clean, <<"F">>)
         THEN stripClosingFence(trimStart(SubSeq(clean, 2, Len(clean))))
         ELSE clean

\* JSON.parse: one document, whitespace allowed around it; anything else throws
JsonParses(t) == Len(trim(t)) = 1 /\ trim(t)[1] \in DocTokens
JSONparse(t)  == JsonValue(trim(t)[1])

\* AISettings as passed to a Domain Operation; NoSettings when the caller
\* omits the argument
Settings(provider, baseUrl, customApiKey) ==
    [given |-> TRUE, provider |-> provider, baseUrl |-> baseUrl, customApiKey |-> customApiKey]
NoSettings == [given |-> FALSE, provider |-> Undefined, baseUrl |-> Undefined,
               customApiKey |-> Undefined]
BaseUrls   == {Undefined, "", "https://api", "https://api/"}
ApiKeys    == {Undefined, "", "key"}
SettingsSet ==
    {NoSettings} \cup
    {Settings(p, b, k) : p \in {"gemini", "custom"}, b \in BaseUrls, k \in ApiKeys}

Falsy(s) == s \in {Undefined, ""}
\* settings?.provider || 'gemini'
ProviderOf(settings) ==
    IF ~settings.given \/ Falsy(settings.provider) THEN "gemini" ELSE settings.provider
\* !settings?.baseUrl || !settings?.customApiKey
MissingCredentials(settings) ==
    ~settings.given \/ Falsy(settings.baseUrl) \/ Falsy(settings.customApiKey)

(***************************************************************************)
(* What the backend does with one request: the environment's choice.       *)
(*   text    a reply carrying the text                                     *)
(*   absent  a reply without text (response.text undefined, no choices)    *)
(*   reject  the transport fails                                           *)
(*   status  a non-success HTTP status                                     *)
(*   body    a reply whose body is not JSON                                *)
(***************************************************************************)
Outcome(kind, text) == [kind |-> kind, text |-> text]

\* errors
ConfigError     == "Missing Base URL or API Key for custom provider"
ChatConfigError == "Missing credentials"
TransportError  == "transport failure"
StatusError     == "Custom API Error"
BodyError       == "response body is not JSON"
TypeError       == "TypeError"
SyntaxError     == "SyntaxError"
SearchError     == "Failed to fetch articles. Please check your AI settings."
OcrError        == "Failed to extract text from image."
DefineError     == "Failed to define word."
TranslateError  == "Failed to translate text."
ExamError       == "Failed to generate exam."

\* what a function call produced: a value or a thrown error, and the network
\* calls it made (one record per call)
Returned(value, calls) == [threw |-> FALSE, error |-> "", value |-> value, calls |-> calls]
Threw(error, calls)    == [threw |-> TRUE, error |-> error, value |-> <<>>, calls |-> calls]

\* the text a prompt is built from: the operation's template and the values
\* interpolated into it
Prompt(template, content) == [template |-> template, content |-> content]

NativeCall(api, prompt, schema, tools) ==
    [backend |-> "native", api |-> api, schema |-> schema, tools |-> tools,
     endpoint |-> "", roles |-> <<>>, prompt |-> prompt]
\* settings.baseUrl.endsWith('/') ? `${baseUrl}chat/completions`
\*                                 : `${baseUrl}/chat/completions`
Endpoint(baseUrl) ==
    IF baseUrl = "https://api/" THEN "https://api/chat/completions"
    ELSE IF baseUrl = "https://api" THEN "https://api/chat/completions"
    ELSE "/chat/completions"
FetchCall(baseUrl, roles, prompt) ==
    [backend |-> "fetch", api |-> "POST", schema |-> FALSE, tools |-> FALSE,
     endpoint |-> Endpoint(baseUrl), roles |-> roles, prompt |-> prompt]

\* the reply of a backend as callAI hands it on:
\* response.text || ""   and   data.choices?.[0]?.message?.content || ""
Reply(out, calls) ==
    CASE out.kind = "text"   -> Returned(out.text, calls)
      [] out.kind = "absent" -> Returned(<<>>, calls)
      [] out.kind = "reject" -> Threw(TransportError, calls)
      [] out.kind = "status" -> Threw(StatusError, calls)
      [] out.kind = "body"   -> Threw(BodyError, calls)

\* callAI(prompt, settings, schema, tools); schema and tools are TRUE when given
callAI_noCredentialCheck(prompt, settings, schema, tools, out) ==
    IF ProviderOf(settings) = "gemini"
    THEN Reply(out, <<NativeCall("generateContent", prompt, schema, tools)>>)
    ELSE Reply(out, <<FetchCall(settings.baseUrl,
                                IF schema THEN <<"user", "system">> ELSE <<"user">>,
                                prompt)>>)
callAI(prompt, settings, schema, tools, out) ==
    IF ProviderOf(settings) = "gemini"
    THEN Reply(out, <<NativeCall("generateContent", prompt, schema, tools)>>)
    ELSE IF MissingCredentials(settings) THEN Threw(ConfigError, <<>>)
    ELSE Reply(out, <<FetchCall(settings.baseUrl,
                                IF schema THEN <<"user", "system">> ELSE <<"user">>,
                                prompt)>>)

(***************************************************************************)
(* Domain Operations                                                       *)
(***************************************************************************)
Article(id, title, content, source, dateAdded, type) ==
    [id |-> id, title |-> title, content |-> content, source |-> source,
     dateAdded |-> dateAdded, type |-> type]

\* sourceLabel of searchArticles
SourceLabel_same(provider) == "Google Search"
SourceLabel(provider) == IF provider = "gemini" THEN "Google Search" ELSE "AI Generated"

\* searchArticles(topic, settings); t is Date.now()
searchArticles_parseErrorEscapes(settings, out, t) ==
    LET provider    == ProviderOf(settings)
        r           == callAI(Prompt("searchArticles", <<>>), settings, FALSE,
                              provider = "gemini", out)
        sourceLabel == SourceLabel(provider)
        text        == cleanJsonText(r.value)
        rawArticles == JSONparse(text)
    IN  IF r.threw THEN Threw(SearchError, r.calls)
        ELSE IF ~JsonParses(text) THEN Threw(SearchError, r.calls)
        ELSE IF rawArticles.type # "array" THEN Threw(SearchError, r.calls)
        ELSE Returned([i \in 1..Len(rawArticles.items) |->
                          Article(<<t, i - 1>>,
                                  Get(rawArticles.items[i], "title"),
                                  Get(rawArticles.items[i], "content"),
                                  sourceLabel, t, "web")],
                      r.calls)
searchArticles(settings, out, t) ==
    LET provider    == ProviderOf(settings)
        r           == callAI(Prompt("searchArticles", <<>>), settings, FALSE,
                              provider = "gemini", out)
        sourceLabel == SourceLabel(provider)
        text        == cleanJsonText(r.value)
        rawArticles == JSONparse(text)
    IN  IF r.threw THEN Threw(SearchError, r.calls)
        ELSE IF ~JsonParses(text) THEN Returned(<<>>, r.calls)
        ELSE IF rawArticles.type # "array" THEN Returned(<<>>, r.calls)
        ELSE IF \E i \in 1..Len(rawArticles.items) : ~CanRead(rawArticles.items[i])
        THEN Threw(SearchError, r.calls)
        ELSE Returned([i \in 1..Len(rawArticles.items) |->
                          Article(<<t, i - 1>>,
                                  Get(rawArticles.items[i], "title"),
                                  Get(rawArticles.items[i], "content"),
                                  sourceLabel, t, "web")],
                      r.calls)

UnknownLevel == <<"Unknown">>

\* assessLevel(vocabularyList, settings)
assessLevel_noShortCircuit(vocabularyList, settings, out) ==
    LET r == callAI(Prompt("assessLevel", vocabularyList), settings, FALSE, FALSE, out) IN
    IF r.threw THEN Returned(UnknownLevel, r.calls)
    ELSE IF trim(r.value) = <<>> THEN Returned(UnknownLevel, r.calls)
    ELSE Returned(trim(r.value), r.calls)
assessLevel_noCatch(vocabularyList, settings, out) ==
    IF Len(vocabularyList) = 0 THEN Returned(UnknownLevel, <<>>)
    ELSE LET r == callAI(Prompt("assessLevel", vocabularyList), settings, FALSE, FALSE,
                         out) IN
         IF r.threw THEN r
         ELSE IF trim(r.value) = <<>> THEN Returned(UnknownLevel, r.calls)
         ELSE Returned(trim(r.value), r.calls)
assessLevel(vocabularyList, settings, out) ==
    IF Len(vocabularyList) = 0 THEN Returned(UnknownLevel, <<>>)
    ELSE LET r == callAI(Prompt("assessLevel", vocabularyList), settings, FALSE, FALSE,
                         out) IN
         IF r.threw THEN Returned(UnknownLevel, r.calls)
         ELSE IF trim(r.value) = <<>> THEN Returned(UnknownLevel, r.calls)
         ELSE Returned(trim(r.value), r.calls)

QuizQuestion(id, type, question, options, correctOptionIndex, explanation) ==
    [id |-> id, type |-> type, question |-> question, options |-> options,
     correctOptionIndex |-> correctOptionIndex, explanation |-> explanation]

\* generateQuizForWord(word, settings); t is Date.now()
generateQuizForWord(word, settings, out, t) ==
    LET r    == callAI(Prompt("generateQuizForWord", <<word>>), settings, TRUE, FALSE, out)
        text == cleanJsonText(r.value)
        data == JSONparse(text)
    IN  IF r.threw THEN Threw(r.error, r.calls)
        ELSE IF ~JsonParses(text) THEN Threw(SyntaxError, r.calls)
        ELSE IF ~CanRead(data) THEN Threw(TypeError, r.calls)
        ELSE Returned(QuizQuestion(t, "fill-blank", Get(data, "question"),
                                   Get(data, "options"), Get(data, "correctOptionIndex"),
                                   word),
                      r.calls)

\* the raw texts of imported files; "long raw" stands for a text of more than
\* 15000 characters
RawTexts == {"", "raw", "long raw"}
\* rawText.slice(0, 15000)
slice15000(rawText) == IF rawText = "long raw" THEN "long raw[0,15000)" ELSE rawText

\* processImportedText(rawText, fileName, settings)
processImportedText_noCatch(rawText, fileName, settings, out) ==
    LET r        == callAI(Prompt("processImportedText", <<fileName, slice15000(rawText)>>),
                           settings, TRUE, FALSE, out)
        text     == cleanJsonText(r.value)
        data     == JSONparse(text)
    IN  IF r.threw THEN Threw(r.error, r.calls)
        ELSE IF ~JsonParses(text) THEN Threw(SyntaxError, r.calls)
        ELSE IF ~CanRead(data) THEN Threw(TypeError, r.calls)
        ELSE Returned([title   |-> IF Truthy(Get(data, "title"))
                                   THEN Get(data, "title") ELSE JString(fileName),
                       content |-> IF Truthy(Get(data, "content"))
                                   THEN Get(data, "content") ELSE JString(rawText)],
                      r.calls)
processImportedText(rawText, fileName, settings, out) ==
    LET r        == callAI(Prompt("processImportedText", <<fileName, slice15000(rawText)>>),
                           settings, TRUE, FALSE, out)
        text     == cleanJsonText(r.value)
        data     == JSONparse(text)
        fallback == [title |-> JString(fileName), content |-> JString(rawText)]
    IN  IF r.threw THEN Returned(fallback, r.calls)
        ELSE IF ~JsonParses(text) THEN Returned(fallback, r.calls)
        ELSE IF ~CanRead(data) THEN Returned(fallback, r.calls)
        ELSE Returned([title   |-> IF Truthy(Get(data, "title"))
                                   THEN Get(data, "title") ELSE JString(fileName),
                       content |-> IF Truthy(Get(data, "content"))
                                   THEN Get(data, "content") ELSE JString(rawText)],
                      r.calls)

\* defineWord(word, contextSentence, settings): the parsed value is returned
\* as it is
defineWord(word, settings, out) ==
    LET r    == callAI(Prompt("defineWord", <<word>>), settings, TRUE, FALSE, out)
        text == cleanJsonText(r.value)
    IN  IF r.threw THEN Threw(DefineError, r.calls)
        ELSE IF ~JsonParses(text) THEN Threw(DefineError, r.calls)
        ELSE Returned(JSONparse(text), r.calls)

\* translateText(text, settings)
translateText(settings, out) ==
    LET r == callAI(Prompt("translateText", <<>>), settings, FALSE, FALSE, out) IN
    IF r.threw THEN Threw(TranslateError, r.calls) ELSE Returned(r.value, r.calls)

\* array.slice(-n): the last n elements, the whole array when it has fewer
sliceLast(array, n) ==
    IF Len(array) <= n THEN array ELSE SubSeq(array, Len(array) - n + 1, Len(array))

\* knownWords.slice(-30)
ExamWordWindow == 30

\* generateExam(level, knownWords, requirements, settings)
generateExam(knownWords, settings, out) ==
    LET r    == callAI(Prompt("generateExam", sliceLast(knownWords, ExamWordWindow)),
                       settings, TRUE, FALSE, out)
        text == cleanJsonText(r.value)
    IN  IF r.threw THEN Threw(ExamError, r.calls)
        ELSE IF ~JsonParses(text) THEN Threw(ExamError, r.calls)
        ELSE Returned(JSONparse(text), r.calls)

NoResponseText == <<"Error: No response.">>
TroubleText    == <<"I'm having trouble connecting to your custom AI provider.">>

\* history.map(h => ({role: h.role === 'model' ? 'assistant' : 'user', ...}))
RECURSIVE mapRoles(_)
mapRoles(history) ==
    IF history = <<>> THEN <<>>
    ELSE <<IF Head(history) = "model" THEN "assistant" ELSE "user">> \o mapRoles(Tail(history))

\* chatWithTutor(history, newMessage, userStatsContext, settings); history is
\* the sequence of the roles of the earlier messages.  A reply without text is
\* returned as the empty text on the native path (undefined in the code).
chatWithTutor(history, settings, out) ==
    IF ProviderOf(settings) = "custom"
    THEN IF MissingCredentials(settings) THEN Threw(ChatConfigError, <<>>)
         ELSE LET c == <<FetchCall(settings.baseUrl,
                                   <<"system">> \o mapRoles(history) \o <<"user">>,
                                   Prompt("chatWithTutor", <<>>))>> IN
              CASE out.kind = "text"   -> Returned(IF out.text = <<>> THEN NoResponseText
                                                   ELSE out.text, c)
                [] out.kind = "absent" -> Returned(NoResponseText, c)
                [] out.kind = "status" -> Returned(NoResponseText, c)
                [] out.kind = "reject" -> Returned(TroubleText, c)
                [] out.kind = "body"   -> Returned(TroubleText, c)
    ELSE Reply(out, <<NativeCall("chats.sendMessage", Prompt("chatWithTutor", <<>>),
                                     FALSE, FALSE)>>)

OcrPlaceholder ==
    <<"OCR is currently optimized for Gemini Provider. Please switch to Gemini for image scanning.">>

\* extractTextFromImage(base64Image, mimeType, settings)
extractTextFromImage_noGenericBranch(settings, out) ==
    LET r == Reply(out, <<NativeCall("generateContent",
                                     Prompt("extractTextFromImage", <<>>),
                                     FALSE, FALSE)>>) IN
    IF r.threw THEN Threw(OcrError, r.calls) ELSE r
extractTextFromImage(settings, out) ==
    IF ProviderOf(settings) = "custom" THEN Returned(OcrPlaceholder, <<>>)
    ELSE LET r == Reply(out, <<NativeCall("generateContent",
                                          Prompt("extractTextFromImage", <<>>),
                                          FALSE, FALSE)>>) IN
         IF r.threw THEN Threw(OcrError, r.calls) ELSE r

(***************************************************************************)
(* The Domain Operations called as functions: the initial state draws the  *)
(* settings argument and the backend's behaviour, one action per operation *)
(* applies it.                                                             *)
(***************************************************************************)
RECURSIVE SeqsUpTo(_, _)
SeqsUpTo(S, n) ==
    IF n = 0 THEN {<<>>}
    ELSE LET shorter == SeqsUpTo(S, n - 1) IN
         shorter \cup {Append(q, x) : q \in shorter, x \in S}

\* a body as the models wrap it: bare, padded, fenced with and without tag
Wrappings(b) ==
    { <<b>>, <<"W", b, "W">>,
      <<"F", "J", "W", b, "W", "F">>, <<"F", "W", b, "W", "F">>,
      <<"F", "J", b, "F">>, <<"W", "F", "J", "W", b, "W", "F", "W">> }

FreeTokens == {"F", "J", "W", "B1", "A1"}
Texts ==
    SeqsUpTo(FreeTokens, MaxTextLen) \cup
    UNION {Wrappings(b) : b \in DocTokens \cup {"B1"}}

Outcomes ==
    {Outcome("text", t) : t \in Texts} \cup
    {Outcome(k, <<>>) : k \in {"absent", "reject", "status", "body"}}

VocabularyLists == {<<>>, <<"apple">>, <<"apple", "run">>}
Histories       == {<<"model">>, <<"model", "user", "model">>}

NoCall(settings, out) ==
    [op |-> "none", settings |-> settings, out |-> out, arg |-> <<>>,
     res |-> Returned(<<>>, <<>>)]
Call(op, arg, res) == [last EXCEPT !.op = op, !.arg = arg, !.res = res]

SvcInit == \E settings \in SettingsSet, out \in Outcomes : last = NoCall(settings, out)

CallSearchArticles ==
    /\ last.op = "none"
    /\ last' = Call("searchArticles", <<>>, searchArticles(last.settings, last.out, 1))

CallAssessLevel ==
    /\ last.op = "none"
    /\ \E v \in VocabularyLists :
         last' = Call("assessLevel", v, assessLevel(v, last.settings, last.out))

CallGenerateQuizForWord ==
    /\ last.op = "none"
    /\ \E w \in WordTexts :
         last' = Call("generateQuizForWord", <<w>>,
                      generateQuizForWord(w, last.settings, last.out, 1))

CallProcessImportedText ==
    /\ last.op = "none"
    /\ \E rawText \in RawTexts :
         last' = Call("processImportedText", <<rawText, "f.txt">>,
                      processImportedText(rawText, "f.txt", last.settings, last.out))

CallDefineWord ==
    /\ last.op = "none"
    /\ last' = Call("defineWord", <<>>, defineWord("apple", last.settings, last.out))

CallTranslateText ==
    /\ last.op = "none"
    /\ last' = Call("translateText", <<>>, translateText(last.settings, last.out))

CallGenerateExam ==
    /\ last.op = "none"
    /\ \E words \in VocabularyLists :
         last' = Call("generateExam", words, generateExam(words, last.settings, last.out))

CallChatWithTutor ==
    /\ last.op = "none"
    /\ \E h \in Histories :
         last' = Call("chatWithTutor", h, chatWithTutor(h, last.settings, last.out))

CallExtractTextFromImage ==
    /\ last.op = "none"
    /\ last' = Call("extractTextFromImage", <<>>,
                    extractTextFromImage(last.settings, last.out))

\* cleanJsonText applied to the text of a response
CallCleanJsonText ==
    /\ last.op = "none"
    /\ last.out.kind = "text"
    /\ last' = Call("cleanJsonText", last.out.text,
                    Returned(cleanJsonText(last.out.text), <<>>))

(***************************************************************************)
(* View layer: the handlers that start a Domain Operation, with the        *)
(* settings argument each of them passes                                   *)
(***************************************************************************)
\* savedWords.length % 5 === 0
LevelInterval == 5
\* words.slice(-20)
AssessWordWindow == 20

\* savedWords.map(w => w.word)
knownWords(saved) == [i \in 1..Len(saved) |-> saved[i].word]

\* the backend behaviours tried under the view handlers
ViewOutcomes ==
    {Outcome("text", <<"B1">>), Outcome("text", <<"A1">>), Outcome("text", <<"Qok">>),
     Outcome("absent", <<>>), Outcome("reject", <<>>), Outcome("status", <<>>)}

\* useState<AISettings>({provider: 'gemini', ...}): no baseUrl, no customApiKey
InitialSettings == Settings("gemini", Undefined, Undefined)

\* what the Settings form can hold when Save is pressed
\* (baseUrl: settings.baseUrl || '', customApiKey: settings.customApiKey || '')
FormData ==
    {Settings(p, b, k) : p \in {"gemini", "custom"},
                         b \in {"", "https://api", "https://api/"}, k \in {"", "key"}}

\* app: the App's settings when the handler ran; settings: the argument passed
Started(handler, op, settings, res) ==
    [handler |-> handler, op |-> op, app |-> aiSettings, settings |-> settings,
     threw |-> res.threw, calls |-> res.calls]

ViewInit ==
    /\ aiSettings = InitialSettings
    /\ viewLast = Started("none", "none", NoSettings, Returned(<<>>, <<>>))

\* Settings: onSave(formData) -> setAiSettings(s)
SaveSettings ==
    /\ \E s \in FormData : aiSettings' = s
    /\ UNCHANGED viewLast

\* Importer.handleSearch: searchArticles(searchQuery)
ImporterHandleSearch ==
    /\ \E out \in ViewOutcomes :
         viewLast' = Started("Importer.handleSearch", "searchArticles", NoSettings,
                             searchArticles(NoSettings, out, 1))
    /\ UNCHANGED aiSettings

\* Importer.processFile, an image: extractTextFromImage(base64Content, file.type)
ImporterProcessImage ==
    /\ \E out \in ViewOutcomes :
         viewLast' = Started("Importer.processFile(image)", "extractTextFromImage", NoSettings,
                             extractTextFromImage(NoSettings, out))
    /\ UNCHANGED aiSettings

\* Importer.processFile, a document: processImportedText(rawText, file.name)
ImporterProcessDocument ==
    /\ \E out \in ViewOutcomes :
         viewLast' = Started("Importer.processFile(document)", "processImportedText", NoSettings,
                             processImportedText("raw", "f.txt", NoSettings, out))
    /\ UNCHANGED aiSettings

\* QuickTranslator.handleTranslate: defineWord(query.trim(), undefined, settings)
QuickTranslatorHandleTranslate ==
    /\ \E out \in ViewOutcomes :
         viewLast' = Started("QuickTranslator.handleTranslate", "defineWord", aiSettings,
                             defineWord("apple", aiSettings, out))
    /\ UNCHANGED aiSettings

\* GlobalTranslator.handleTranslate: translateText(inputText, settings)
GlobalTranslatorHandleTranslate ==
    /\ \E out \in ViewOutcomes :
         viewLast' = Started("GlobalTranslator.handleTranslate", "translateText", aiSettings,
                             translateText(aiSettings, out))
    /\ UNCHANGED aiSettings

\* GlobalTranslator.handleWordClick: defineWord(cleanWord, context, settings)
GlobalTranslatorHandleWordClick ==
    /\ \E out \in ViewOutcomes :
         viewLast' = Started("GlobalTranslator.handleWordClick", "defineWord", aiSettings,
                             defineWord("apple", aiSettings, out))
    /\ UNCHANGED aiSettings

\* ArticleReader.fetchDefinition: defineWord(word, context, settings)
ArticleReaderFetchDefinition ==
    /\ \E out \in ViewOutcomes :
         viewLast' = Started("ArticleReader.fetchDefinition", "defineWord", aiSettings,
                             defineWord("apple", aiSettings, out))
    /\ UNCHANGED aiSettings

\* App save effect, updateLevel: assessLevel(words.slice(-20), aiSettings)
AppUpdateLevel ==
    /\ Len(savedWords) > 0
    /\ Len(savedWords) % LevelInterval = 0
    /\ \E out \in ViewOutcomes :
         viewLast' = Started("App.updateLevel", "assessLevel", aiSettings,
                             assessLevel(sliceLast(knownWords(savedWords), AssessWordWindow),
                                         aiSettings, out))
    /\ UNCHANGED aiSettings

\* QuizPopup.triggerQuiz: generateQuizForWord(randomWord.word)
QuizPopupTriggerQuiz ==
    /\ \E out \in ViewOutcomes :
         viewLast' = Started("QuizPopup.triggerQuiz", "generateQuizForWord", NoSettings,
                             generateQuizForWord("apple", NoSettings, out, 1))
    /\ UNCHANGED aiSettings

\* ExamMode.handleStart: generateExam(level, knownWords, examReq)
ExamModeHandleStart ==
    /\ \E out \in ViewOutcomes :
         viewLast' = Started("ExamMode.handleStart", "generateExam", NoSettings,
                             generateExam(knownWords(savedWords), NoSettings, out))
    /\ UNCHANGED aiSettings

\* TutorChat.handleSend: chatWithTutor(history, userMsg.text, context)
TutorChatHandleSend ==
    /\ \E out \in ViewOutcomes :
         viewLast' = Started("TutorChat.handleSend", "chatWithTutor", NoSettings,
                             chatWithTutor(<<"model">>, NoSettings, out))
    /\ UNCHANGED aiSettings

(***************************************************************************)
(* ExamMode                                                                *)
(***************************************************************************)
MaxQuestions == 2   \* questions of a generated exam
MaxResults   == 2   \* exam results kept by the App

\* a fraction n/d in lowest terms, for the score (a floating-point number in
\* the code, exact here)
RECURSIVE GCD(_, _)
GCD(a, b) == IF b = 0 THEN a ELSE GCD(b, a % b)
Rat(n, d) == <<n \div GCD(n, d), d \div GCD(n, d)>>
RatDiv(a, b) == Rat(a, b)
RatTimes(r, k) == Rat(r[1] * k, r[2])

\* the questions generateExam can hand back: the index of the correct option
\* is whatever the model wrote, 2 is outside the two options
ExamQuestion(text, correctOptionIndex) ==
    [question |-> text, options |-> <<"a", "b">>, correctOptionIndex |-> correctOptionIndex]
ExamPapers ==
    UNION {[1..n -> {ExamQuestion(t, c) : t \in {"q"}, c \in 0..2}] : n \in 0..MaxQuestions}

\* new Array(qs.length).fill(-1)
Unanswered(n) == [i \in 1..n |-> -1]

\* questions.forEach((q, idx) => ...) of calculateResult, from position idx
\* (1-based here) on, with the score and the mistakes so far
RECURSIVE forEachQuestion_offByOne(_, _, _, _, _)
forEachQuestion_offByOne(qs, ans, idx, score, mistakes) ==
    IF idx >= Len(qs) THEN [score |-> score, mistakes |-> mistakes]
    ELSE IF ans[idx] = qs[idx].correctOptionIndex
    THEN forEachQuestion_offByOne(qs, ans, idx + 1, score + 1, mistakes)
    ELSE forEachQuestion_offByOne(qs, ans, idx + 1, score,
             Append(mistakes, [question |-> qs[idx].question,
                               correctAns |-> qs[idx].correctOptionIndex]))
RECURSIVE forEachQuestion(_, _, _, _, _)
forEachQuestion(qs, ans, idx, score, mistakes) ==
    IF idx > Len(qs) THEN [score |-> score, mistakes |-> mistakes]
    ELSE IF ans[idx] = qs[idx].correctOptionIndex
    THEN forEachQuestion(qs, ans, idx + 1, score + 1, mistakes)
    ELSE forEachQuestion(qs, ans, idx + 1, score,
             Append(mistakes, [question |-> qs[idx].question,
                               correctAns |-> qs[idx].correctOptionIndex]))

\* the ExamResult built by calculateResult; correctAns is kept as the index
\* of the option (q.options[q.correctOptionIndex] in the code); t is Date.now()
calculateResult(qs, ans, t) ==
    LET r == forEachQuestion(qs, ans, 1, 0, <<>>) IN
    [id |-> t, date |-> t,
     score |-> RatTimes(RatDiv(r.score, Len(qs)), 100),
     totalQuestions |-> Len(qs),
     mistakes |-> r.mistakes,
     type |-> "General AI Quiz"]

ExamInit ==
    /\ stage = "intro"
    /\ questions = <<>>
    /\ currentQIndex = 0
    /\ answers = <<>>
    /\ examResults = <<>>

\* handleStart up to the await
HandleStart ==
    /\ ~crashed
    /\ stage = "intro"
    /\ Len(examResults) < MaxResults
    /\ stage' = "loading"
    /\ UNCHANGED <<questions, currentQIndex, answers, examResults, crashed>>

\* handleStart after generateExam resolved with qs; the active view then
\* renders questions[currentQIndex] and throws when there is none
HandleStartResolved ==
    /\ ~crashed
    /\ stage = "loading"
    /\ \E qs \in ExamPapers :
         /\ questions' = qs
         /\ answers' = Unanswered(Len(qs))
         /\ stage' = "active"
         /\ crashed' = (currentQIndex >= Len(qs))
    /\ UNCHANGED <<currentQIndex, examResults>>

\* handleStart after generateExam rejected
HandleStartRejected ==
    /\ ~crashed
    /\ stage = "loading"
    /\ stage' = "intro"
    /\ UNCHANGED <<questions, currentQIndex, answers, examResults, crashed>>

\* handleAnswer(optionIndex), from the option buttons of the current question
HandleAnswer ==
    /\ ~crashed
    /\ stage = "active"
    /\ \E optionIndex \in 0..(Len(questions[currentQIndex + 1].options) - 1) :
         answers' = [answers EXCEPT ![currentQIndex + 1] = optionIndex]
    /\ UNCHANGED <<stage, questions, currentQIndex, examResults, crashed>>

\* handleNext; the button is disabled until the current question is answered
HandleNext_recordsEveryStep ==
    /\ ~crashed
    /\ stage = "active"
    /\ answers[currentQIndex + 1] # -1
    /\ examResults' = <<calculateResult(questions, answers, now)>> \o examResults
    /\ IF currentQIndex < Len(questions) - 1
       THEN /\ currentQIndex' = currentQIndex + 1
            /\ UNCHANGED stage
       ELSE /\ stage' = "result"
            /\ UNCHANGED currentQIndex
    /\ UNCHANGED <<questions, answers, crashed>>
HandleNext ==
    /\ ~crashed
    /\ stage = "active"
    /\ answers[currentQIndex + 1] # -1
    /\ IF currentQIndex < Len(questions) - 1
       THEN /\ currentQIndex' = currentQIndex + 1
            /\ UNCHANGED <<stage, examResults>>
       ELSE /\ examResults' = <<calculateResult(questions, answers, now)>> \o examResults
            /\ stage' = "result"
            /\ UNCHANGED currentQIndex
    /\ UNCHANGED <<questions, answers, crashed>>

\* Try Again on the result view
TryAgain ==
    /\ ~crashed
    /\ stage = "result"
    /\ stage' = "intro"
    /\ UNCHANGED <<questions, currentQIndex, answers, examResults, crashed>>

(***************************************************************************)
(* Word lookups in flight: QuickTranslator (saves the definition as soon   *)
(* as it arrives) and ArticleReader (shows it, the user saves it)          *)
(***************************************************************************)
NoWord == SavedWord(0, Undefined, "d1", 0)

\* quick, reader: the word of the defineWord call awaited, "none" without one;
\* definition: the word of the definition the reader shows; quickRaced,
\* readerRaced: the lookup was in flight together with a lookup of the same
\* word by the other component; first, second: the entries the two lookups
\* of such a pair handed to onSaveWord
LookupInit ==
    lookups = [quick |-> "none", quickRaced |-> FALSE,
               reader |-> "none", definition |-> "none", readerRaced |-> FALSE,
               first |-> NoWord, second |-> NoWord]

SameQuery(a, b) == a # "none" /\ b # "none" /\ toLowerCase(a) = toLowerCase(b)

\* onSaveWord(word) by a lookup; raced tells whether it belongs to a pair
OnSaveWord(word, raced, rest) ==
    /\ Len(handleSaveWord(savedWords, word)) <= MaxWords
    /\ savedWords' = handleSaveWord(savedWords, word)
    /\ lastOp' = [NoOp EXCEPT !.op = "save", !.prev = savedWords, !.word = word]
    /\ lookups' = IF ~raced THEN rest
                  ELSE IF lookups.first = NoWord THEN [rest EXCEPT !.first = word]
                  ELSE [rest EXCEPT !.second = word]

\* QuickTranslator.handleTranslate up to the await; the submit button is
\* disabled while loading
QuickLookupStart ==
    /\ ~crashed
    /\ lookups.quick = "none"
    /\ \E query \in WordTexts :
         /\ findDuplicate(savedWords, SavedWord(0, query, "d1", 0)) = "none"
         /\ lookups' = IF SameQuery(query, lookups.reader)
                       THEN [lookups EXCEPT !.quick = query, !.quickRaced = TRUE,
                                            !.readerRaced = TRUE,
                                            !.first = NoWord, !.second = NoWord]
                       ELSE [lookups EXCEPT !.quick = query, !.quickRaced = FALSE]
    /\ UNCHANGED <<savedWords, lastOp>>

\* QuickTranslator.handleTranslate after the await: onSaveWord(newWord)
QuickLookupDone ==
    /\ ~crashed
    /\ lookups.quick # "none"
    /\ OnSaveWord(SavedWord(now, lookups.quick, "d1", 0), lookups.quickRaced,
                  [lookups EXCEPT !.quick = "none", !.quickRaced = FALSE])

\* QuickTranslator.handleTranslate, defineWord failed
QuickLookupFailed ==
    /\ ~crashed
    /\ lookups.quick # "none"
    /\ lookups' = [lookups EXCEPT !.quick = "none", !.quickRaced = FALSE]
    /\ UNCHANGED <<savedWords, lastOp>>

\* ArticleReader.handleMouseUp: setDefinition(null), fetchDefinition(text, ...)
ReaderLookupStart ==
    /\ ~crashed
    /\ lookups.reader = "none"
    /\ \E text \in WordTexts :
         lookups' = IF SameQuery(text, lookups.quick)
                    THEN [lookups EXCEPT !.reader = text, !.definition = "none",
                                         !.readerRaced = TRUE, !.quickRaced = TRUE,
                                         !.first = NoWord, !.second = NoWord]
                    ELSE [lookups EXCEPT !.reader = text, !.definition = "none",
                                         !.readerRaced = FALSE]
    /\ UNCHANGED <<savedWords, lastOp>>

\* ArticleReader.fetchDefinition after the await: setDefinition(def)
ReaderLookupDone ==
    /\ ~crashed
    /\ lookups.reader # "none"
    /\ lookups' = [lookups EXCEPT !.reader = "none", !.definition = lookups.reader]
    /\ UNCHANGED <<savedWords, lastOp>>

\* ArticleReader.fetchDefinition, defineWord failed
ReaderLookupFailed ==
    /\ ~crashed
    /\ lookups.reader # "none"
    /\ lookups' = [lookups EXCEPT !.reader = "none", !.readerRaced = FALSE]
    /\ UNCHANGED <<savedWords, lastOp>>

\* ArticleReader.handleSave: onSaveWord({...definition, id: Date.now()})
ReaderHandleSave ==
    /\ ~crashed
    /\ lookups.definition # "none"
    /\ OnSaveWord(SavedWord(now, lookups.definition, "d2", 0), lookups.readerRaced,
                  [lookups EXCEPT !.definition = "none", !.readerRaced = FALSE])

(***************************************************************************)
(* ArticleReader: selections made while earlier lookups are in flight      *)
(***************************************************************************)
MaxLookups == 2   \* defineWord calls the reader awaits at once

\* selectedWord and definition are null ("none") at first; definition holds
\* the word a definition is of; saved: history, the selection under which
\* handleSave ran last and the word of the definition it saved
ReaderInit ==
    reader = [selectedWord |-> "none", definition |-> "none", loading |-> FALSE,
              awaited |-> <<>>, saved |-> [selectedWord |-> "none", word |-> "none"]]

\* handleMouseUp over a selection of one to three words, and fetchDefinition
\* up to its await
ReaderHandleMouseUp ==
    /\ ~crashed
    /\ Len(reader.awaited) < MaxLookups
    /\ \E text \in WordTexts :
         reader' = [reader EXCEPT !.selectedWord = text, !.definition = "none",
                                  !.loading = TRUE, !.awaited = Append(@, text)]
    /\ UNCHANGED <<savedWords, lastOp>>

\* fetchDefinition after the await: setDefinition(def), then setLoading(false)
ReaderFetchDefinitionResolved ==
    /\ ~crashed
    /\ \E i \in 1..Len(reader.awaited) :
         reader' = [reader EXCEPT
                      !.definition = reader.awaited[i], !.loading = FALSE,
                      !.awaited = SubSeq(@, 1, i - 1) \o SubSeq(@, i + 1, Len(@))]
    /\ UNCHANGED <<savedWords, lastOp>>

\* fetchDefinition, defineWord failed: console.error, then setLoading(false)
ReaderFetchDefinitionRejected ==
    /\ ~crashed
    /\ \E i \in 1..Len(reader.awaited) :
         reader' = [reader EXCEPT
                      !.loading = FALSE,
                      !.awaited = SubSeq(@, 1, i - 1) \o SubSeq(@, i + 1, Len(@))]
    /\ UNCHANGED <<savedWords, lastOp>>

\* handleSave, from the popup of the selected word once a definition shows
ReaderSaveDefinition ==
    /\ ~crashed
    /\ reader.selectedWord # "none" /\ ~reader.loading /\ reader.definition # "none"
    /\ LET word == SavedWord(now, reader.definition, "d2", 0) IN
       /\ Len(handleSaveWord(savedWords, word)) <= MaxWords
       /\ savedWords' = handleSaveWord(savedWords, word)
       /\ lastOp' = [NoOp EXCEPT !.op = "save", !.prev = savedWords, !.word = word]
    /\ reader' = [reader EXCEPT
                    !.selectedWord = "none", !.definition = "none",
                    !.saved = [selectedWord |-> reader.selectedWord,
                               word |-> reader.definition]]

\* handleClosePopup
ReaderHandleClosePopup ==
    /\ ~crashed
    /\ reader.selectedWord # "none"
    /\ reader' = [reader EXCEPT !.selectedWord = "none", !.definition = "none"]
    /\ UNCHANGED <<savedWords, lastOp>>

(***************************************************************************)
(* QuizPopup                                                               *)
(***************************************************************************)
MaxQuizWords  == 3   \* saved words under the quiz popup
MaxGenerating == 2   \* generateQuizForWord calls the popup awaits at once
QuizMinWords  == 3   \* if (words.length < 3) return

\* a word id of 0 stands for null (targetWordId, question: the id of the word
\* the question shown was generated for).  timer: the timeout the effect
\* holds, with the isVisible of the render that scheduled it; answer: the
\* timeouts of handleOptionClick, "result" (500 ms, then onResult) and
\* "close" (1500 ms more, then handleClose).  At first the popup is hidden and
\* its effect has run over the words it mounted with.
NoAnswer == [stage |-> "none", wordId |-> 0, isCorrect |-> FALSE]
QuizInit ==
    quiz = [isVisible |-> FALSE, question |-> 0, loading |-> FALSE,
            selectedOption |-> "none", targetWordId |-> 0,
            timer |-> [pending |-> Len(savedWords) >= QuizMinWords, isVisible |-> FALSE],
            awaited |-> <<>>, answer |-> NoAnswer]

QuizOutcomes == {Outcome("text", <<"Qok">>), Outcome("reject", <<>>)}

\* the render after a handler left the popup as q and the words as words: the
\* effect of [words, isVisible] runs when one of the two was replaced; its
\* cleanup clears the timeout it held and it sets a new one unless there are
\* fewer than three words
Render_wordsOnly(q, wordsReplaced, words) ==
    IF ~wordsReplaced THEN q
    ELSE [q EXCEPT !.timer = [pending   |-> Len(words) >= QuizMinWords,
                              isVisible |-> q.isVisible]]
Render(q, wordsReplaced, words) ==
    IF ~wordsReplaced /\ q.isVisible = quiz.isVisible THEN q
    ELSE [q EXCEPT !.timer = [pending   |-> Len(words) >= QuizMinWords,
                              isVisible |-> q.isVisible]]

\* handleClose
handleClose(q) ==
    [q EXCEPT !.isVisible = FALSE, !.question = 0, !.selectedOption = "none",
              !.targetWordId = 0]

\* App.handleSaveWord of the next new word, seen by the popup
QuizSaveWord ==
    /\ ~crashed
    /\ Len(savedWords) < MaxQuizWords
    /\ LET k == Len(savedWords) + 1 IN
       savedWords' = handleSaveWord(savedWords, SavedWord(k, WordNames[k], "d1", 0))
    /\ quiz' = Render(quiz, TRUE, savedWords')

\* App.handleDeleteWord of the newest word, seen by the popup
QuizDeleteWord ==
    /\ ~crashed
    /\ savedWords # <<>>
    /\ savedWords' = handleDeleteWord(savedWords, Head(savedWords).id)
    /\ quiz' = Render(quiz, TRUE, savedWords')

\* the quiz timeout (60 to 180 s) elapses and triggerQuiz runs up to its
\* await.  A timeout set while the popup was hidden cannot elapse while the
\* two timeouts of an answer (2 s together) are pending.
QuizTimerFires ==
    /\ ~crashed
    /\ quiz.timer.pending
    /\ quiz.timer.isVisible \/ quiz.answer.stage = "none"
    /\ IF quiz.timer.isVisible
       THEN quiz' = [quiz EXCEPT !.timer.pending = FALSE]
       ELSE \E i \in 1..Len(savedWords) :
               /\ Len(quiz.awaited) < MaxGenerating
               /\ quiz' = Render([quiz EXCEPT !.timer.pending = FALSE,
                                              !.targetWordId = savedWords[i].id,
                                              !.loading = TRUE,
                                              !.isVisible = TRUE,
                                              !.awaited = Append(@, savedWords[i].id)],
                                 FALSE, savedWords)
    /\ UNCHANGED savedWords

\* triggerQuiz after the await: setQuestion(q), or setIsVisible(false) in the
\* catch block; then setLoading(false)
QuizGenerated ==
    /\ ~crashed
    /\ \E i \in 1..Len(quiz.awaited), out \in QuizOutcomes :
         LET r    == generateQuizForWord(WordNames[quiz.awaited[i]], NoSettings, out, now)
             rest == SubSeq(quiz.awaited, 1, i - 1) \o
                     SubSeq(quiz.awaited, i + 1, Len(quiz.awaited))
         IN quiz' = Render(IF r.threw
                           THEN [quiz EXCEPT !.isVisible = FALSE, !.loading = FALSE,
                                             !.awaited = rest]
                           ELSE [quiz EXCEPT !.question = quiz.awaited[i],
                                             !.loading = FALSE, !.awaited = rest],
                           FALSE, savedWords)
    /\ UNCHANGED savedWords

\* handleOptionClick on an option of the question shown
QuizOptionClick ==
    /\ ~crashed
    /\ quiz.isVisible /\ ~quiz.loading
    /\ quiz.selectedOption = "none" /\ quiz.question # 0 /\ quiz.targetWordId # 0
    /\ \E isCorrect \in BOOLEAN :
         /\ \A i \in 1..Len(savedWords) :
               (savedWords[i].id = quiz.targetWordId /\ isCorrect)
                  => savedWords[i].reviewCount < MaxReview
         /\ quiz' = [quiz EXCEPT
                       !.selectedOption = IF isCorrect THEN "right" ELSE "wrong",
                       !.answer = [stage |-> "result", wordId |-> quiz.targetWordId,
                                   isCorrect |-> isCorrect]]
    /\ UNCHANGED savedWords

\* the 500 ms timeout of handleOptionClick: onResult(targetWordId, isCorrect),
\* App.handleQuizResult replaces the words
QuizResultTimeout ==
    /\ ~crashed
    /\ quiz.answer.stage = "result"
    /\ savedWords' = handleQuizResult(savedWords, quiz.answer.wordId, quiz.answer.isCorrect)
    /\ quiz' = Render([quiz EXCEPT !.answer.stage = "close"], TRUE, savedWords')

\* the 1500 ms timeout that follows: handleClose
QuizCloseTimeout ==
    /\ ~crashed
    /\ quiz.answer.stage = "close"
    /\ quiz' = Render([handleClose(quiz) EXCEPT !.answer = NoAnswer], FALSE, savedWords)
    /\ UNCHANGED savedWords

\* the X button of the popup
QuizHandleClose ==
    /\ ~crashed
    /\ quiz.isVisible
    /\ quiz' = Render(handleClose(quiz), FALSE, savedWords)
    /\ UNCHANGED savedWords

(***************************************************************************)
(* TutorChat                                                               *)
(***************************************************************************)
MaxChat == 5   \* messages of a transcript

ChatMessage(role, text) == [role |-> role, text |-> text]
Greeting     == <<"Hello! I'm LinguaBot, your personal English tutor. How can I help you today?">>
ThinkingText == <<"I'm having trouble thinking right now.">>
SorryText    == <<"Sorry, I encountered an error. Please try again.">>

\* what the input field can hold: nothing, blanks, a question
ChatInputs == {<<>>, <<"W">>, <<"hi">>, <<"W", "hi">>}
ChatOutcomes == {Outcome("text", <<"B1">>), Outcome("absent", <<>>), Outcome("reject", <<>>)}

\* messages.map(m => ({role: m.role, ...}))
ChatRoles(messages) == [i \in 1..Len(messages) |-> messages[i].role]

ChatInit ==
    chat = [messages |-> <<ChatMessage("model", Greeting)>>, input |-> <<>>,
            isTyping |-> FALSE, awaited |-> <<>>]

\* onChange of the input field
ChatSetInput ==
    /\ ~crashed
    /\ \E text \in ChatInputs : chat' = [chat EXCEPT !.input = text]

\* the form is submitted, which the disabled submit button prevents while the
\* input is blank or a reply is awaited, and handleSend runs up to its await
ChatSubmit_whileTyping ==
    /\ ~crashed
    /\ ~(trim(chat.input) = <<>>)
    /\ trim(chat.input) # <<>>
    /\ Len(chat.messages) < MaxChat
    /\ chat' = [messages |-> Append(chat.messages, ChatMessage("user", chat.input)),
                input    |-> <<>>,
                isTyping |-> TRUE,
                awaited  |-> Append(chat.awaited, ChatRoles(chat.messages))]
ChatSubmit ==
    /\ ~crashed
    /\ ~(trim(chat.input) = <<>> \/ chat.isTyping)
    /\ trim(chat.input) # <<>>
    /\ Len(chat.messages) < MaxChat
    /\ chat' = [messages |-> Append(chat.messages, ChatMessage("user", chat.input)),
                input    |-> <<>>,
                isTyping |-> TRUE,
                awaited  |-> Append(chat.awaited, ChatRoles(chat.messages))]

\* handleSend after the await: a call completes, the reply (or the notice of
\* the catch block) is appended and the finally block clears isTyping
ChatReplied ==
    /\ ~crashed
    /\ \E i \in 1..Len(chat.awaited), out \in ChatOutcomes :
         LET r == chatWithTutor(chat.awaited[i], NoSettings, out)
             botMsg == IF r.threw THEN ChatMessage("model", SorryText)
                       ELSE ChatMessage("model", IF r.value = <<>> THEN ThinkingText
                                                 ELSE r.value)
         IN chat' = [chat EXCEPT
                       !.messages = Append(@, botMsg),
                       !.isTyping = FALSE,
                       !.awaited  = SubSeq(@, 1, i - 1) \o SubSeq(@, i + 1, Len(@))]

(***************************************************************************)
(* App: the handlers of the six persisted values, the save effect they     *)
(* trigger, and the level re-assessment the effect starts                  *)
(***************************************************************************)
MaxAppWords == 5    \* saved words under the save effect
MaxItems    == 1    \* articles, notes and exam results under the save effect
MaxPending  == 2    \* level assessments in flight

\* useState<UserStats>({estimatedLevel: 'Assessing...', wordsLearned: 0, articlesRead: 0})
InitialLevel == <<"Assessing...">>
UserStats(estimatedLevel, wordsLearned, articlesRead) ==
    [estimatedLevel |-> estimatedLevel, wordsLearned |-> wordsLearned,
     articlesRead |-> articlesRead]

\* the settings saved and the backend behaviours tried under the save effect
AppSettings == {InitialSettings, Settings("custom", "https://api", "key")}
AppOutcomes == {Outcome("text", <<"B1">>), Outcome("text", <<"C1">>),
                Outcome("reject", <<>>)}

\* localStorage: getItem returns null for a key never set, else the string set
StorageKeys == {"lf_articles", "lf_words", "lf_lang", "lf_notes", "lf_exam_results",
                "lf_ai_settings"}
Null == [kind |-> "null"]
Item(text) == [kind |-> "string", text |-> text]
EmptyStorage == [key \in StorageKeys |-> Null]

\* if (stored...): null is falsy, every string the App stores is non-empty
Stored(item) == item.kind = "string"

\* JSON.stringify of one of the App's arrays: the entries (ids, texts, counts,
\* scores) are strings and numbers, which JSON keeps; JSON.parse of that text
JSONstringifyArray(array) == [array |-> array]
JSONparseArray(text) == text.array

\* JSON.stringify of the AI settings leaves out the properties that are
\* undefined; JSON.parse gives an object without them, which reads as undefined
SettingsKeys == {"provider", "baseUrl", "customApiKey"}
JSONstringifySettings(settings) ==
    [key \in {k \in SettingsKeys : settings[k] # Undefined} |-> settings[key]]
JSONparseSettings(text) ==
    LET read(key) == IF key \in DOMAIN text THEN text[key] ELSE Undefined IN
    Settings(read("provider"), read("baseUrl"), read("customApiKey"))

\* the six setItem calls of the save effect
Persist(arts, words, language, noteList, results, settings) ==
    [lf_articles     |-> Item(JSONstringifyArray(arts)),
     lf_words        |-> Item(JSONstringifyArray(words)),
     lf_lang         |-> Item(language),
     lf_notes        |-> Item(JSONstringifyArray(noteList)),
     lf_exam_results |-> Item(JSONstringifyArray(results)),
     lf_ai_settings  |-> Item(JSONstringifySettings(settings))]

\* the load effect: the values its setters are called with, from the entries
\* read; a key that is not stored leaves the state as it is
loadEffect(read) ==
    [articles    |-> IF Stored(read.lf_articles)
                     THEN JSONparseArray(read.lf_articles.text) ELSE articles,
     savedWords  |-> IF Stored(read.lf_words)
                     THEN JSONparseArray(read.lf_words.text) ELSE savedWords,
     lang        |-> IF Stored(read.lf_lang) THEN read.lf_lang.text ELSE lang,
     notes       |-> IF Stored(read.lf_notes)
                     THEN JSONparseArray(read.lf_notes.text) ELSE notes,
     examResults |-> IF Stored(read.lf_exam_results)
                     THEN JSONparseArray(read.lf_exam_results.text) ELSE examResults,
     aiSettings  |-> IF Stored(read.lf_ai_settings)
                     THEN JSONparseSettings(read.lf_ai_settings.text) ELSE aiSettings]

\* history: what the last handler did to the collection and to the effect
Effect(handler, ran, invoked, after, failed) ==
    [handler |-> handler, ran |-> ran, invoked |-> invoked,
     before |-> Len(savedWords), after |-> after, failed |-> failed,
     level |-> userStats.estimatedLevel]

AppState ==
    /\ articles = <<>>
    /\ notes = <<>>
    /\ lang = "zh"
    /\ userStats = UserStats(InitialLevel, 0, 0)
    /\ pending = <<>>
    /\ effect = [handler |-> "none", ran |-> FALSE, invoked |-> FALSE, before |-> 0,
                 after |-> 0, failed |-> FALSE, level |-> InitialLevel]
    /\ race = [overtaken |-> 0, newest |-> InitialLevel]
    /\ LookupInit
    /\ ReaderInit
    /\ ChatInit
    /\ QuizInit

\* the App after it mounted with nothing stored: the save effect has written
\* the initial values
AppInit ==
    /\ AppState
    /\ mounted = TRUE
    /\ storage = Persist(articles, savedWords, lang, notes, examResults, aiSettings)

\* the save effect, run after handler replaced one of its dependencies
\* [articles, savedWords, lang, notes, examResults, aiSettings]; words, arts
\* and settings are the values of the new render, as are lang', notes' and
\* examResults'.  updateLevel starts assessLevel and awaits it; the statistics
\* are set at once.
SaveEffect(handler, words, arts, settings) ==
    LET invoke == Len(words) > 0 /\ Len(words) % LevelInterval = 0 IN
    /\ invoke => Len(pending) < MaxPending
    /\ storage' = Persist(arts, words, lang', notes', examResults', settings)
    /\ pending' = IF invoke
                  THEN Append(pending,
                              [words    |-> sliceLast(knownWords(words), AssessWordWindow),
                               settings |-> settings])
                  ELSE pending
    /\ userStats' = [userStats EXCEPT !.wordsLearned = Len(words),
                                      !.articlesRead = Len(arts)]
    /\ effect' = Effect(handler, TRUE, invoke, Len(words), FALSE)

\* App mounts.  The effects of the first commit run in the order they are
\* declared: the load effect reads the six entries and calls the setters of
\* those that are stored, then the save effect writes the initial values of
\* that render; the render with the loaded values follows and the save effect
\* runs over them.
AppMount_saveBeforeLoad ==
    LET read  == Persist(articles, savedWords, lang, notes, examResults, aiSettings)
        state == loadEffect(read)
    IN
    /\ ~mounted
    /\ ~crashed
    /\ articles' = state.articles
    /\ savedWords' = state.savedWords
    /\ lang' = state.lang
    /\ notes' = state.notes
    /\ examResults' = state.examResults
    /\ aiSettings' = state.aiSettings
    /\ SaveEffect("mount", state.savedWords, state.articles, state.aiSettings)
    /\ mounted' = TRUE
AppMount ==
    LET read  == storage
        state == loadEffect(read)
    IN
    /\ ~mounted
    /\ ~crashed
    /\ articles' = state.articles
    /\ savedWords' = state.savedWords
    /\ lang' = state.lang
    /\ notes' = state.notes
    /\ examResults' = state.examResults
    /\ aiSettings' = state.aiSettings
    /\ SaveEffect("mount", state.savedWords, state.articles, state.aiSettings)
    /\ mounted' = TRUE

\* a state setter that returned the previous value: no render, no effect
NoRender(handler) ==
    /\ effect' = Effect(handler, FALSE, FALSE, Len(savedWords), FALSE)
    /\ UNCHANGED <<pending, userStats, storage>>

\* handleSaveWord, of the next new word or of the newest one again
AppSaveWord ==
    /\ ~crashed
    /\ UNCHANGED <<articles, notes, examResults, lang, aiSettings>>
    /\ \E k \in 1..MaxAppWords :
         /\ k \in {Len(savedWords), Len(savedWords) + 1}
         /\ LET next == handleSaveWord(savedWords, SavedWord(k, WordNames[k], "d1", 0)) IN
            /\ savedWords' = next
            /\ IF next = savedWords
               THEN NoRender("handleSaveWord")
               ELSE SaveEffect("handleSaveWord", next, articles, aiSettings)

\* handleDeleteWord of the newest word: filter builds a new array
AppDeleteWord ==
    /\ ~crashed
    /\ UNCHANGED <<articles, notes, examResults, lang, aiSettings>>
    /\ savedWords # <<>>
    /\ LET next == handleDeleteWord(savedWords, Head(savedWords).id) IN
       /\ savedWords' = next
       /\ SaveEffect("handleDeleteWord", next, articles, aiSettings)

\* handleQuizResult, a failed quiz on the newest word: map builds a new array
AppQuizResult ==
    /\ ~crashed
    /\ UNCHANGED <<articles, notes, examResults, lang, aiSettings>>
    /\ savedWords # <<>>
    /\ LET next == handleQuizResult(savedWords, Head(savedWords).id, FALSE) IN
       /\ savedWords' = next
       /\ SaveEffect("handleQuizResult", next, articles, aiSettings)

\* handleImport: setArticles(prev => [article, ...prev])
AppImport ==
    /\ ~crashed
    /\ UNCHANGED <<savedWords, notes, examResults, lang, aiSettings>>
    /\ Len(articles) < MaxItems
    /\ articles' = <<Len(articles) + 1>> \o articles
    /\ SaveEffect("handleImport", savedWords, articles', aiSettings)

\* deleteArticle of the newest article
AppDeleteArticle ==
    /\ ~crashed
    /\ UNCHANGED <<savedWords, notes, examResults, lang, aiSettings>>
    /\ articles # <<>>
    /\ articles' = Tail(articles)
    /\ SaveEffect("deleteArticle", savedWords, articles', aiSettings)

\* handleAddNote: setNotes(prev => [note, ...prev])
AppAddNote ==
    /\ ~crashed
    /\ UNCHANGED <<savedWords, articles, examResults, lang, aiSettings>>
    /\ Len(notes) < MaxItems
    /\ notes' = <<Len(notes) + 1>> \o notes
    /\ SaveEffect("handleAddNote", savedWords, articles, aiSettings)

\* handleDeleteNote of the newest note
AppDeleteNote ==
    /\ ~crashed
    /\ UNCHANGED <<savedWords, articles, examResults, lang, aiSettings>>
    /\ notes # <<>>
    /\ notes' = Tail(notes)
    /\ SaveEffect("handleDeleteNote", savedWords, articles, aiSettings)

\* handleExamFinish: setExamResults(prev => [result, ...prev])
AppExamFinish ==
    /\ ~crashed
    /\ UNCHANGED <<savedWords, articles, notes, lang, aiSettings>>
    /\ Len(examResults) < MaxItems
    /\ examResults' = <<calculateResult(<<ExamQuestion("q", 0)>>, <<0>>, 1)>> \o examResults
    /\ SaveEffect("handleExamFinish", savedWords, articles, aiSettings)

\* toggleLanguage
AppToggleLanguage ==
    /\ ~crashed
    /\ UNCHANGED <<savedWords, articles, notes, examResults, aiSettings>>
    /\ lang' = IF lang = "zh" THEN "en" ELSE "zh"
    /\ SaveEffect("toggleLanguage", savedWords, articles, aiSettings)

\* Settings onSave: setAiSettings(s), a new object whatever it holds
AppSaveSettings ==
    /\ ~crashed
    /\ UNCHANGED <<savedWords, articles, notes, examResults, lang>>
    /\ \E s \in AppSettings :
         /\ aiSettings' = s
         /\ SaveEffect("setAiSettings", savedWords, articles, s)

\* updateLevel after the await: the i-th of the assessments in flight completes
\* with backend behaviour out and
\* setUserStats(prev => ({...prev, estimatedLevel: level})) runs; userStats is
\* no dependency of the save effect
LevelAssessed_freshStats(i, out) ==
    LET r == assessLevel(pending[i].words, pending[i].settings, out) IN
    /\ ~crashed
    /\ userStats' = IF r.threw THEN userStats
                    ELSE UserStats(r.value, 0, 0)
    /\ pending' = SubSeq(pending, 1, i - 1) \o SubSeq(pending, i + 1, Len(pending))
    /\ effect' = Effect("updateLevel", FALSE, FALSE, Len(savedWords),
                        r.calls = <<>> \/ out.kind \in {"reject", "status", "body"})
    /\ UNCHANGED <<savedWords, articles, notes, examResults, lang, aiSettings, storage>>
LevelAssessed(i, out) ==
    LET r == assessLevel(pending[i].words, pending[i].settings, out) IN
    /\ ~crashed
    /\ userStats' = IF r.threw THEN userStats
                    ELSE [userStats EXCEPT !.estimatedLevel = r.value]
    /\ pending' = SubSeq(pending, 1, i - 1) \o SubSeq(pending, i + 1, Len(pending))
    /\ effect' = Effect("updateLevel", FALSE, FALSE, Len(savedWords),
                        r.calls = <<>> \/ out.kind \in {"reject", "status", "body"})
    /\ UNCHANGED <<savedWords, articles, notes, examResults, lang, aiSettings, storage>>

\* any of the assessments in flight completes
AppLevelAssessed ==
    \E i \in 1..Len(pending), out \in AppOutcomes : LevelAssessed(i, out)

\* the same, recording the start order of the completed assessments: the
\* assessments started before the completed one are overtaken
RaceLevelAssessed ==
    \E i \in 1..Len(pending), out \in AppOutcomes :
        /\ LevelAssessed(i, out)
        /\ race' = [overtaken |-> IF i <= race.overtaken
                                  THEN race.overtaken - 1 ELSE i - 1,
                    newest    |-> IF i <= race.overtaken THEN race.newest
                                  ELSE assessLevel(pending[i].words,
                                                   pending[i].settings, out).value]

(***************************************************************************)
(* Specifications                                                          *)
(***************************************************************************)
SvcIdle == last = NoCall(NoSettings, Outcome("absent", <<>>))

\* the App's saved-word collection
Init == StoreInit /\ SvcIdle /\ ViewInit /\ ExamInit /\ AppInit
Next ==
    \/ Tick       /\ UNCHANGED <<svcVars, viewVars, examVars, appVars>>
    \/ SaveWord   /\ UNCHANGED <<svcVars, viewVars, examVars, appVars>>
    \/ QuizResult /\ UNCHANGED <<svcVars, viewVars, examVars, appVars>>
    \/ DeleteWord /\ UNCHANGED <<svcVars, viewVars, examVars, appVars>>
Spec == Init /\ [][Next]_vars

\* the Domain Operations as functions
SvcSpecInit == StoreInit /\ SvcInit /\ ViewInit /\ ExamInit /\ AppInit
SvcNext ==
    \/ CallSearchArticles       /\ UNCHANGED <<storeVars, viewVars, examVars, appVars>>
    \/ CallAssessLevel          /\ UNCHANGED <<storeVars, viewVars, examVars, appVars>>
    \/ CallGenerateQuizForWord  /\ UNCHANGED <<storeVars, viewVars, examVars, appVars>>
    \/ CallProcessImportedText  /\ UNCHANGED <<storeVars, viewVars, examVars, appVars>>
    \/ CallDefineWord           /\ UNCHANGED <<storeVars, viewVars, examVars, appVars>>
    \/ CallTranslateText        /\ UNCHANGED <<storeVars, viewVars, examVars, appVars>>
    \/ CallGenerateExam         /\ UNCHANGED <<storeVars, viewVars, examVars, appVars>>
    \/ CallChatWithTutor        /\ UNCHANGED <<storeVars, viewVars, examVars, appVars>>
    \/ CallExtractTextFromImage /\ UNCHANGED <<storeVars, viewVars, examVars, appVars>>
    \/ CallCleanJsonText        /\ UNCHANGED <<storeVars, viewVars, examVars, appVars>>
SvcSpec == SvcSpecInit /\ [][SvcNext]_vars

\* the view handlers over the settings held by the App
ViewNext ==
    \/ SaveSettings                    /\ UNCHANGED <<storeVars, svcVars, examVars, appVars>>
    \/ ImporterHandleSearch            /\ UNCHANGED <<storeVars, svcVars, examVars, appVars>>
    \/ ImporterProcessImage            /\ UNCHANGED <<storeVars, svcVars, examVars, appVars>>
    \/ ImporterProcessDocument         /\ UNCHANGED <<storeVars, svcVars, examVars, appVars>>
    \/ QuickTranslatorHandleTranslate  /\ UNCHANGED <<storeVars, svcVars, examVars, appVars>>
    \/ GlobalTranslatorHandleTranslate /\ UNCHANGED <<storeVars, svcVars, examVars, appVars>>
    \/ GlobalTranslatorHandleWordClick /\ UNCHANGED <<storeVars, svcVars, examVars, appVars>>
    \/ ArticleReaderFetchDefinition    /\ UNCHANGED <<storeVars, svcVars, examVars, appVars>>
    \/ AppUpdateLevel                  /\ UNCHANGED <<storeVars, svcVars, examVars, appVars>>
    \/ QuizPopupTriggerQuiz            /\ UNCHANGED <<storeVars, svcVars, examVars, appVars>>
    \/ ExamModeHandleStart             /\ UNCHANGED <<storeVars, svcVars, examVars, appVars>>
    \/ TutorChatHandleSend             /\ UNCHANGED <<storeVars, svcVars, examVars, appVars>>
ViewSpecInit ==
    /\ savedWords = SavedList(LevelInterval)
    /\ crashed = FALSE /\ now = 1 /\ lastOp = NoOp
    /\ SvcIdle /\ ViewInit /\ ExamInit /\ AppInit
ViewSpec == ViewSpecInit /\ [][ViewNext]_vars

\* the word lists handed to assess level and to generate exam, over
\* collections of every length
RecentInit ==
    /\ \E n \in 0..MaxSaved : savedWords = SavedList(n)
    /\ crashed = FALSE /\ now = 1 /\ lastOp = NoOp
    /\ SvcIdle /\ ViewInit /\ ExamInit /\ AppInit
RecentNext ==
    \/ AppUpdateLevel      /\ UNCHANGED <<storeVars, svcVars, examVars, appVars>>
    \/ ExamModeHandleStart /\ UNCHANGED <<storeVars, svcVars, examVars, appVars>>
    \/ SaveSettings        /\ UNCHANGED <<storeVars, svcVars, examVars, appVars>>
RecentSpec == RecentInit /\ [][RecentNext]_vars

\* ExamMode under the App
ExamNext ==
    \/ HandleStart         /\ UNCHANGED <<savedWords, now, lastOp, svcVars, viewVars, appVars>>
    \/ HandleStartResolved /\ UNCHANGED <<savedWords, now, lastOp, svcVars, viewVars, appVars>>
    \/ HandleStartRejected /\ UNCHANGED <<savedWords, now, lastOp, svcVars, viewVars, appVars>>
    \/ HandleAnswer        /\ UNCHANGED <<savedWords, now, lastOp, svcVars, viewVars, appVars>>
    \/ HandleNext          /\ UNCHANGED <<savedWords, now, lastOp, svcVars, viewVars, appVars>>
    \/ TryAgain            /\ UNCHANGED <<savedWords, now, lastOp, svcVars, viewVars, appVars>>
ExamSpec == Init /\ [][ExamNext]_vars

\* the App's handlers with the save effect
AppUnchanged == <<crashed, now, lastOp, svcVars, viewLast, stage, questions,
                  currentQIndex, answers, lookups, race, mounted, compVars>>
AppNext ==
    \/ AppSaveWord       /\ UNCHANGED AppUnchanged
    \/ AppDeleteWord     /\ UNCHANGED AppUnchanged
    \/ AppQuizResult     /\ UNCHANGED AppUnchanged
    \/ AppImport         /\ UNCHANGED AppUnchanged
    \/ AppDeleteArticle  /\ UNCHANGED AppUnchanged
    \/ AppAddNote        /\ UNCHANGED AppUnchanged
    \/ AppDeleteNote     /\ UNCHANGED AppUnchanged
    \/ AppExamFinish     /\ UNCHANGED AppUnchanged
    \/ AppToggleLanguage /\ UNCHANGED AppUnchanged
    \/ AppSaveSettings   /\ UNCHANGED AppUnchanged
    \/ AppLevelAssessed  /\ UNCHANGED AppUnchanged
AppSpec == Init /\ [][AppNext]_vars

\* the App from its start, over what an earlier session left in localStorage
StoredSessions ==
    {Persist(arts, SavedList(n), language, arts, <<>>, settings) :
        arts \in {<<>>, <<1>>}, n \in {0, 1, LevelInterval},
        language \in {"zh", "en"}, settings \in AppSettings}
StartInit ==
    /\ StoreInit /\ SvcIdle /\ ViewInit /\ ExamInit /\ AppState
    /\ mounted = FALSE
    /\ storage \in {EmptyStorage} \cup StoredSessions
StartNext ==
    \/ AppMount /\ UNCHANGED <<crashed, now, lastOp, svcVars, viewLast, stage, questions,
                                currentQIndex, answers, lookups, race, compVars>>
    \/ mounted /\ AppNext
StartSpec == StartInit /\ [][StartNext]_vars

\* the article reader over the saved-word collection
ReaderUnchanged == <<crashed, now, svcVars, viewVars, examVars, articles, notes, lang,
                     userStats, pending, effect, storage, mounted, race, lookups, chat,
                     quiz>>
ReaderNext ==
    \/ ReaderHandleMouseUp           /\ UNCHANGED ReaderUnchanged
    \/ ReaderFetchDefinitionResolved /\ UNCHANGED ReaderUnchanged
    \/ ReaderFetchDefinitionRejected /\ UNCHANGED ReaderUnchanged
    \/ ReaderSaveDefinition          /\ UNCHANGED ReaderUnchanged
    \/ ReaderHandleClosePopup        /\ UNCHANGED ReaderUnchanged
    \/ Tick /\ UNCHANGED <<svcVars, viewVars, examVars, appVars>>
ReaderSpec == Init /\ [][ReaderNext]_vars

\* the quiz popup over the saved-word collection
QuizUnchanged == <<crashed, now, lastOp, svcVars, viewVars, examVars, articles, notes,
                   lang, userStats, pending, effect, storage, mounted, race, lookups,
                   chat, reader>>
QuizNext ==
    \/ QuizSaveWord      /\ UNCHANGED QuizUnchanged
    \/ QuizDeleteWord    /\ UNCHANGED QuizUnchanged
    \/ QuizTimerFires    /\ UNCHANGED QuizUnchanged
    \/ QuizGenerated     /\ UNCHANGED QuizUnchanged
    \/ QuizOptionClick   /\ UNCHANGED QuizUnchanged
    \/ QuizResultTimeout /\ UNCHANGED QuizUnchanged
    \/ QuizCloseTimeout  /\ UNCHANGED QuizUnchanged
    \/ QuizHandleClose   /\ UNCHANGED QuizUnchanged
QuizSpec == Init /\ [][QuizNext]_vars

\* the popup over the words of an earlier session, which no longer grow, where
\* every timeout that stays set elapses and every call that is awaited ends
QuizFairInit ==
    /\ savedWords = SavedList(QuizMinWords)
    /\ crashed = FALSE /\ now = 1 /\ lastOp = NoOp
    /\ SvcIdle /\ ViewInit /\ ExamInit /\ AppInit
QuizFairNext ==
    \/ QuizDeleteWord    /\ UNCHANGED QuizUnchanged
    \/ QuizTimerFires    /\ UNCHANGED QuizUnchanged
    \/ QuizGenerated     /\ UNCHANGED QuizUnchanged
    \/ QuizOptionClick   /\ UNCHANGED QuizUnchanged
    \/ QuizResultTimeout /\ UNCHANGED QuizUnchanged
    \/ QuizCloseTimeout  /\ UNCHANGED QuizUnchanged
    \/ QuizHandleClose   /\ UNCHANGED QuizUnchanged
QuizFairSpec ==
    /\ QuizFairInit
    /\ [][QuizFairNext]_vars
    /\ WF_vars(QuizGenerated /\ UNCHANGED QuizUnchanged)
    /\ WF_vars(QuizTimerFires /\ UNCHANGED QuizUnchanged)
    /\ WF_vars(QuizResultTimeout /\ UNCHANGED QuizUnchanged)
    /\ WF_vars(QuizCloseTimeout /\ UNCHANGED QuizUnchanged)

\* the tutor chat
ChatUnchanged == <<storeVars, svcVars, viewVars, examVars, articles, notes, lang,
                   userStats, pending, effect, storage, mounted, race, lookups, reader,
                   quiz>>
ChatNext ==
    \/ ChatSetInput /\ UNCHANGED ChatUnchanged
    \/ ChatSubmit   /\ UNCHANGED ChatUnchanged
    \/ ChatReplied  /\ UNCHANGED ChatUnchanged
ChatSpec == Init /\ [][ChatNext]_vars

\* level assessments in flight at once
RaceNext ==
    \/ AppSaveWord       /\ UNCHANGED <<AppUnchanged>>
    \/ AppDeleteWord     /\ UNCHANGED <<AppUnchanged>>
    \/ AppToggleLanguage /\ UNCHANGED <<AppUnchanged>>
    \/ RaceLevelAssessed /\ UNCHANGED <<crashed, now, lastOp, svcVars, viewLast, stage,
                                         questions, currentQIndex, answers, lookups,
                                         mounted, compVars>>
RaceSpec == Init /\ [][RaceNext]_vars

\* lookups in flight over the saved-word collection
LookupUnchanged == <<crashed, now, svcVars, viewVars, examVars, articles, notes, lang,
                     userStats, pending, effect, race, storage, mounted, compVars>>
LookupNext ==
    \/ QuickLookupStart   /\ UNCHANGED LookupUnchanged
    \/ QuickLookupDone    /\ UNCHANGED LookupUnchanged
    \/ QuickLookupFailed  /\ UNCHANGED LookupUnchanged
    \/ ReaderLookupStart  /\ UNCHANGED LookupUnchanged
    \/ ReaderLookupDone   /\ UNCHANGED LookupUnchanged
    \/ ReaderLookupFailed /\ UNCHANGED LookupUnchanged
    \/ ReaderHandleSave   /\ UNCHANGED LookupUnchanged
    \/ Tick               /\ UNCHANGED <<svcVars, viewVars, examVars, appVars>>
    \/ DeleteWord         /\ UNCHANGED <<svcVars, viewVars, examVars, appVars>>
LookupSpec == Init /\ [][LookupNext]_vars

(***************************************************************************)
(* Properties                                                              *)
(***************************************************************************)
SameWord(a, b) == a # Undefined /\ b # Undefined /\ toLowerCase(a) = toLowerCase(b)

\* C1: after any sequence of save-word, delete-word and quiz-result
\* operations from the empty collection, no two entries of the saved-word
\* collection have the same word text ignoring case.
C1_NoDuplicateWords ==
    \A i, j \in 1..Len(savedWords) :
        i # j => toLowerCase(savedWords[i].word) # toLowerCase(savedWords[j].word)

\* a full collection on which a save of a differently-cased duplicate has
\* just run
C1_Witness ==
    /\ lastOp.op = "save"
    /\ Len(savedWords) = 2
    /\ \E i \in 1..Len(lastOp.prev) :
          /\ SameWord(lastOp.prev[i].word, lastOp.word.word)
          /\ lastOp.prev[i].word # lastOp.word.word

\* C2: saving a word whose text matches, ignoring case, an entry already in
\* the collection leaves the collection as it was: same entries, same order,
\* the existing entry's id, review counter and definition kept.
C2_DuplicateSaveIsNoOp ==
    ( /\ lastOp.op = "save"
      /\ \E i \in 1..Len(lastOp.prev) : SameWord(lastOp.prev[i].word, lastOp.word.word) )
    => savedWords = lastOp.prev

\* a duplicate save whose word differs from the existing entry in case, id,
\* definition and review counter
C2_Witness ==
    /\ lastOp.op = "save"
    /\ \E i \in 1..Len(lastOp.prev) :
          /\ SameWord(lastOp.prev[i].word, lastOp.word.word)
          /\ lastOp.prev[i].word # lastOp.word.word
          /\ lastOp.prev[i].id # lastOp.word.id
          /\ lastOp.prev[i].def # lastOp.word.def
          /\ lastOp.prev[i].reviewCount > 0
    /\ Len(lastOp.prev) = 2

\* the operations that reach the generic backend
GenericOps ==
    {"searchArticles", "processImportedText", "defineWord", "translateText",
     "assessLevel", "generateQuizForWord", "generateExam", "chatWithTutor"}
\* (assess level of an empty list never gets as far as the backend, see C9)
GenericWithoutCredentials ==
    /\ last.op \in GenericOps
    /\ last.op = "assessLevel" => Len(last.arg) > 0
    /\ ProviderOf(last.settings) = "custom"
    /\ MissingCredentials(last.settings)

\* C3, as claimed: with the generic provider and baseUrl or customApiKey
\* missing, every Domain Operation that depends on the generic backend fails,
\* and no network call is attempted.
C3_AllFailWithoutCredentials ==
    GenericWithoutCredentials => (last.res.threw /\ last.res.calls = <<>>)

\* C3, amended: with the generic provider and baseUrl or customApiKey missing,
\* no Domain Operation attempts a network call; search, define word,
\* translate, generate quiz, generate exam and chat fail to their caller (quiz
\* and chat with the configuration error, the others with their own error in
\* its place), normalize imported text returns {title: fileName, content:
\* rawText} and assess level returns "Unknown".
C3_NoCallWithoutCredentials ==
    GenericWithoutCredentials =>
        /\ last.res.calls = <<>>
        /\ last.op = "searchArticles"      => last.res.threw /\ last.res.error = SearchError
        /\ last.op = "defineWord"          => last.res.threw /\ last.res.error = DefineError
        /\ last.op = "translateText"       => last.res.threw /\ last.res.error = TranslateError
        /\ last.op = "generateExam"        => last.res.threw /\ last.res.error = ExamError
        /\ last.op = "generateQuizForWord" => last.res.threw /\ last.res.error = ConfigError
        /\ last.op = "chatWithTutor"       => last.res.threw /\ last.res.error = ChatConfigError
        /\ last.op = "processImportedText" =>
              /\ ~last.res.threw
              /\ last.res.value = [title   |-> JString(last.arg[2]),
                                    content |-> JString(last.arg[1])]
        /\ last.op = "assessLevel" => ~last.res.threw /\ last.res.value = UnknownLevel

\* assess level with words to assess, the generic provider and no API key,
\* while the backend would have answered
C3_Witness ==
    /\ GenericWithoutCredentials
    /\ last.op = "assessLevel"
    /\ Len(last.arg) > 0
    /\ last.settings.baseUrl = "https://api"
    /\ last.out = Outcome("text", <<"B1">>)
    /\ last.res.value = UnknownLevel

\* C4: once the settings held by the App select the generic provider, no
\* operation started from the view layer reaches the native backend.
C4_ProviderDrivesRouting ==
    (viewLast.handler # "none" /\ ProviderOf(viewLast.app) = "custom")
    => \A i \in 1..Len(viewLast.calls) : viewLast.calls[i].backend # "native"

\* C5: every QuizQuestion returned by generateQuizForWord(word) has
\* 0 <= correctOptionIndex < options.length and options[correctOptionIndex]
\* equal to the word ignoring case, whatever JSON the model returned.
C5_QuizIndexValid ==
    (last.op = "generateQuizForWord" /\ ~last.res.threw) =>
        LET q == last.res.value IN
        /\ q.correctOptionIndex.type = "number"
        /\ q.options.type = "array"
        /\ q.correctOptionIndex.num >= 0
        /\ q.correctOptionIndex.num < Len(q.options.items)
        /\ q.options.items[q.correctOptionIndex.num + 1].type = "string"
        /\ toLowerCase(q.options.items[q.correctOptionIndex.num + 1].str)
              = toLowerCase(last.arg[1])

\* the number of positions answered with the question's correct option
CorrectCount(qs, ans) ==
    Cardinality({i \in 1..Len(qs) : ans[i] = qs[i].correctOptionIndex})

\* C6: the ExamResult recorded for an exam of N questions has
\* score = 100 * C / N, mistakes.length = N - C and totalQuestions = N, with
\* C the number of positions i where answers[i] = questions[i].correctOptionIndex.
C6_ExamResultScore ==
    stage = "result" =>
        LET r == examResults[1]
            N == Len(questions)
            C == CorrectCount(questions, answers)
        IN  /\ r.score = Rat(100 * C, N)
            /\ Len(r.mistakes) = N - C
            /\ r.totalQuestions = N

\* a finished exam of two questions, one answered correctly
C6_Witness ==
    /\ stage = "result"
    /\ Len(questions) = 2
    /\ CorrectCount(questions, answers) = 1
    /\ examResults[1].score = <<50, 1>>

\* the backend answered the search with a text (or with no text at all)
SearchAnswered ==
    /\ last.op = "searchArticles"
    /\ last.out.kind \in {"text", "absent"}
    /\ last.res.calls # <<>>
ResponseText == IF last.out.kind = "text" THEN last.out.text ELSE <<>>

\* C7: when the response to a search, fences removed, is not valid JSON, or is
\* valid JSON that is not an array, searchArticles returns the empty list and
\* raises nothing.
C7_SearchMalformedIsEmpty ==
    ( /\ SearchAnswered
      /\ \/ ~JsonParses(cleanJsonText(ResponseText))
         \/ JSONparse(cleanJsonText(ResponseText)).type # "array" )
    => (~last.res.threw /\ last.res.value = <<>>)

\* a search answered with prose, and one answered with a JSON object
C7_Witness ==
    /\ SearchAnswered
    /\ last.out.kind = "text"
    /\ last.out.text \in {<<"B1">>, <<"F", "J", "W", "{}", "W", "F">>, <<"F", "J">>}
    /\ ~last.res.threw

ArrayDocs == {"[]", "A1", "A2"}

\* C8: when the response to a search is a JSON array of N {title, content}
\* objects, bare or fenced, searchArticles returns N Articles in the same
\* order, each with the entry's title and content, type "web", and source
\* "Google Search" on the native backend, "AI Generated" on the generic one.
C8_SearchMapsArticles ==
    \A b \in ArrayDocs :
        (SearchAnswered /\ last.out.kind = "text" /\ last.out.text \in Wrappings(b)) =>
            LET items == JsonValue(b).items IN
            /\ ~last.res.threw
            /\ Len(last.res.value) = Len(items)
            /\ \A i \in 1..Len(items) :
                  /\ last.res.value[i].title = items[i].fields.title
                  /\ last.res.value[i].content = items[i].fields.content
                  /\ last.res.value[i].type = "web"
                  /\ last.res.value[i].source =
                        IF last.res.calls[1].backend = "native"
                        THEN "Google Search" ELSE "AI Generated"

\* a fenced array of two entries answered by the generic backend
C8_Witness ==
    /\ SearchAnswered
    /\ last.out = Outcome("text", <<"F", "J", "W", "A2", "W", "F">>)
    /\ last.res.calls[1].backend = "fetch"
    /\ Len(last.res.value) = 2
    /\ last.res.value[2].title = JString("T2")

\* C9: assessLevel with an empty word list returns "Unknown" and calls no
\* backend.
C9_EmptyListIsUnknown ==
    (last.op = "assessLevel" /\ Len(last.arg) = 0) =>
        /\ ~last.res.threw
        /\ last.res.value = UnknownLevel
        /\ last.res.calls = <<>>

\* the empty list assessed while the backend would have answered "B1"
C9_Witness ==
    /\ last.op = "assessLevel"
    /\ last.arg = <<>>
    /\ last.out = Outcome("text", <<"B1">>)
    /\ ~MissingCredentials(last.settings)
    /\ last.res.value = UnknownLevel

\* the backend call of the last operation failed or brought no text
CallFailedOrEmpty ==
    \/ ProviderOf(last.settings) = "custom" /\ MissingCredentials(last.settings)
    \/ last.out.kind \in {"reject", "status", "body", "absent"}
    \/ last.out.kind = "text" /\ last.out.text = <<>>

\* C10: assessLevel never fails to its caller; for a non-empty word list, a
\* backend call that fails (configuration, transport, non-success status) or
\* returns empty text gives "Unknown".
C10_AssessLevelNeverFails ==
    (last.op = "assessLevel" /\ Len(last.arg) > 0) =>
        /\ ~last.res.threw
        /\ CallFailedOrEmpty => last.res.value = UnknownLevel

\* a non-success status from the generic backend while assessing two words
C10_Witness ==
    /\ last.op = "assessLevel"
    /\ Len(last.arg) = 2
    /\ last.out.kind = "status"
    /\ last.res.calls # <<>>
    /\ last.res.calls[1].backend = "fetch"
    /\ last.res.value = UnknownLevel

\* the backend call of the last operation failed: no credentials, transport
\* failure, non-success status or a body that cannot be read
BackendCallFailed ==
    \/ ProviderOf(last.settings) = "custom" /\ MissingCredentials(last.settings)
    \/ last.out.kind \in {"reject", "status", "body"}
\* the backend answered with a text that is not JSON once the fences are
\* removed, or whose JSON value has no fields to read (null)
ParsingFailed ==
    /\ ~BackendCallFailed
    /\ \/ ~JsonParses(cleanJsonText(ResponseText))
       \/ ~CanRead(JSONparse(cleanJsonText(ResponseText)))

\* C11: processImportedText never fails to its caller; when the backend call
\* or the parsing of its response fails it returns {title: fileName, content:
\* rawText} with the whole raw text, not the truncation sent in the prompt.
C11_ImportNeverFails ==
    last.op = "processImportedText" =>
        /\ ~last.res.threw
        /\ (BackendCallFailed \/ ParsingFailed) =>
              last.res.value = [title   |-> JString(last.arg[2]),
                                content |-> JString(last.arg[1])]

\* a text longer than the prompt limit, answered with prose instead of JSON
C11_Witness ==
    /\ last.op = "processImportedText"
    /\ last.arg[1] = "long raw"
    /\ last.out = Outcome("text", <<"B1">>)
    /\ last.res.calls # <<>>
    /\ last.res.calls[1].prompt.content = <<"f.txt", "long raw[0,15000)">>
    /\ ~last.res.threw
    /\ last.res.value.content = JString("long raw")

\* C12: with the generic provider selected, extractTextFromImage returns the
\* placeholder message, does not fail and makes no backend call.
C12_OcrPlaceholderOnGeneric ==
    (last.op = "extractTextFromImage" /\ ProviderOf(last.settings) = "custom") =>
        /\ ~last.res.threw
        /\ last.res.value = OcrPlaceholder
        /\ last.res.calls = <<>>

\* image extraction under the generic provider with credentials, while the
\* backend would have refused the call
C12_Witness ==
    /\ last.op = "extractTextFromImage"
    /\ ProviderOf(last.settings) = "custom"
    /\ ~MissingCredentials(last.settings)
    /\ last.out.kind = "reject"
    /\ last.res.value = OcrPlaceholder

\* required: ["word", "chineseMeaning", "englishDefinition", "level"]
RequiredFields == {"word", "chineseMeaning", "englishDefinition", "level"}
HasRequiredFields(v) ==
    /\ v.type = "object"
    /\ \A f \in RequiredFields : Get(v, f).type = "string"

\* C13: defineWord fails whenever the parsed response lacks one of the
\* required fields word, chineseMeaning, englishDefinition, level: every value
\* it returns has all four.
C13_DefineWordRequiresFields ==
    (last.op = "defineWord" /\ ~last.res.threw) => HasRequiredFields(last.res.value)

\* the operations that parse the response as JSON, search and exam generation
\* apart
ParsingOps == {"defineWord", "generateQuizForWord", "processImportedText"}
\* the backend of the last operation was called and answered
Answered ==
    /\ last.res.calls # <<>>
    /\ last.out.kind \in {"text", "absent"}
\* what the last operation returns when the parsed response is {}
EmptyObjectResult ==
    CASE last.op = "defineWord"          -> JObject(<<>>)
      [] last.op = "generateQuizForWord" ->
             QuizQuestion(1, "fill-blank", JUndefined, JUndefined, JUndefined, last.arg[1])
      [] last.op = "processImportedText" ->
             [title |-> JString(last.arg[2]), content |-> JString(last.arg[1])]

\* C14, as claimed: in define word, generate quiz and normalize imported text
\* a response that is not valid JSON is treated as the empty object {}: the
\* operation does not throw and returns what it returns for {}.
C14_NonJsonIsEmptyObject ==
    ( /\ last.op \in ParsingOps
      /\ Answered
      /\ ~JsonParses(cleanJsonText(ResponseText)) )
    => (~last.res.threw /\ last.res.value = EmptyObjectResult)

\* C14, amended: only an empty or absent response text is treated as {}; a
\* non-empty response that is not valid JSON once the fences are removed makes
\* define word and generate quiz fail to their caller, and makes normalize
\* imported text return {title: fileName, content: rawText}.
C14_OnlyEmptyIsEmptyObject ==
    (last.op \in ParsingOps /\ Answered) =>
        /\ ResponseText = <<>> =>
              (~last.res.threw /\ last.res.value = EmptyObjectResult)
        /\ ~JsonParses(cleanJsonText(ResponseText)) =>
              /\ last.op = "defineWord" =>
                    last.res.threw /\ last.res.error = DefineError
              /\ last.op = "generateQuizForWord" =>
                    last.res.threw /\ last.res.error = SyntaxError
              /\ last.op = "processImportedText" =>
                    /\ ~last.res.threw
                    /\ last.res.value = [title   |-> JString(last.arg[2]),
                                          content |-> JString(last.arg[1])]

\* define word answered with prose by the generic backend
C14_Witness ==
    /\ last.op = "defineWord"
    /\ Answered
    /\ last.res.calls[1].backend = "fetch"
    /\ last.out = Outcome("text", <<"B1">>)
    /\ last.res.threw
    /\ last.res.error = DefineError

\* C15, as claimed: for every JSON document d, cleanJsonText of d fenced with
\* the json tag, fenced without tag or bare, with or without whitespace
\* around, parses to the value of d; and a text that does not start with a
\* fence is returned as it is apart from the trimming.
C15_CleanJsonTextAsClaimed ==
    last.op = "cleanJsonText" =>
        /\ \A d \in DocTokens :
              last.arg \in Wrappings(d) =>
                  /\ JsonParses(last.res.value)
                  /\ JSONparse(last.res.value) = JsonValue(d)
        /\ ~startsWith(trim(last.arg), <<"F">>) => last.res.value = trim(last.arg)

\* C15, amended: the same for the fenced and bare documents; a non-empty text
\* that does not start with a fence is returned as it is apart from the
\* trimming, and the empty text is returned as {}.
C15_CleanJsonTextRoundTrip ==
    last.op = "cleanJsonText" =>
        /\ \A d \in DocTokens :
              last.arg \in Wrappings(d) =>
                  /\ JsonParses(last.res.value)
                  /\ JSONparse(last.res.value) = JsonValue(d)
        /\ (last.arg # <<>> /\ ~startsWith(trim(last.arg), <<"F">>)) =>
              last.res.value = trim(last.arg)
        /\ last.arg = <<>> => last.res.value = <<"{}">>

\* a document in a tagged fence with whitespace inside and around
C15_Witness ==
    /\ last.op = "cleanJsonText"
    /\ last.arg = <<"W", "F", "J", "W", "Dfull", "W", "F", "W">>
    /\ JSONparse(last.res.value) = JsonValue("Dfull")

\* C16: in define word, translate, generate quiz, generate exam and chat, on
\* either backend, a backend call that fails in transport or answers with a
\* non-success HTTP status makes the operation fail to its caller.
C16_FailedCallPropagates ==
    ( /\ last.op \in {"defineWord", "translateText", "generateQuizForWord",
                      "generateExam", "chatWithTutor"}
      /\ last.res.calls # <<>>
      /\ last.out.kind \in {"reject", "status"} )
    => last.res.threw

\* the n words saved most recently: new words are inserted at the front
mostRecent(saved, n) == {saved[i].word : i \in 1..n}
Handed == {viewLast.calls[1].prompt.content[i] :
              i \in 1..Len(viewLast.calls[1].prompt.content)}

\* C18: when the collection holds more than 20 words, the words handed to
\* assess level are the 20 saved most recently; when it holds more than 30,
\* the words handed to generate exam are the 30 saved most recently.
C18_MostRecentWordsHanded ==
    /\ ( /\ viewLast.op = "assessLevel"
         /\ viewLast.calls # <<>>
         /\ Len(savedWords) > AssessWordWindow )
       => Handed = mostRecent(savedWords, AssessWordWindow)
    /\ ( /\ viewLast.op = "generateExam"
         /\ viewLast.calls # <<>>
         /\ Len(savedWords) > ExamWordWindow )
       => Handed = mostRecent(savedWords, ExamWordWindow)

\* the last handler changed the number of saved words to a positive multiple
\* of the interval
CountReachedInterval ==
    /\ effect.before # effect.after
    /\ effect.after > 0
    /\ effect.after % LevelInterval = 0

\* C17: assess level is invoked when, and only when, a change of the
\* saved-word collection brings the count to a positive multiple of 5; a
\* handler that leaves the count unchanged does not invoke it.
C17_AssessOnlyOnCountChange == effect.invoked <=> CountReachedInterval

\* C19: when a level assessment fails, the estimated level keeps the value it
\* had before.
C19_FailedAssessKeepsLevel ==
    (effect.handler = "updateLevel" /\ effect.failed) =>
        userStats.estimatedLevel = effect.level

\* the last handler saved the second entry of two lookups of one word that
\* were in flight together, and the entry of the first is in the collection
SecondOfPairSaved ==
    /\ lastOp.op = "save"
    /\ lookups.second # NoWord
    /\ lastOp.word = lookups.second
    /\ \E i \in 1..Len(lastOp.prev) : lastOp.prev[i] = lookups.first

\* C20, as claimed: when two lookups of the same word are in flight at once
\* and both are saved, the collection holds the entry written last.
C20_LastWriteWins ==
    SecondOfPairSaved => \E i \in 1..Len(savedWords) : savedWords[i] = lookups.second

\* C20, amended: the second save finds the entry written first and changes
\* nothing: the collection keeps the entry written first.
C20_FirstWriteWins ==
    SecondOfPairSaved =>
        /\ savedWords = lastOp.prev
        /\ \A i \in 1..Len(savedWords) :
              SameWord(savedWords[i].word, lookups.second.word) =>
                  savedWords[i] = lookups.first

\* "apple" looked up in the reader and "Apple" in the quick translator at the
\* same time, the reader's definition saved last
C20_Witness ==
    /\ SecondOfPairSaved
    /\ lookups.first.word = "Apple"
    /\ lookups.second.word = "apple"
    /\ lookups.first.id # lookups.second.id
    /\ Len(savedWords) = 1

\* C30: every review counter is >= 0; a quiz outcome changes only the counter
\* of the word with the given id, by +1 on success and by -1 floored at 0 on
\* failure, keeps every other word and the order, and changes nothing when no
\* word has that id.
C30_QuizOutcomeTouchesOneCounter ==
    /\ \A i \in 1..Len(savedWords) : savedWords[i].reviewCount >= 0
    /\ lastOp.op = "quiz" =>
          /\ Len(savedWords) = Len(lastOp.prev)
          /\ \A i \in 1..Len(lastOp.prev) :
                LET w == lastOp.prev[i] IN
                IF w.id = lastOp.id
                THEN savedWords[i] =
                        [w EXCEPT !.reviewCount =
                            IF lastOp.success THEN w.reviewCount + 1
                            ELSE IF w.reviewCount = 0 THEN 0 ELSE w.reviewCount - 1]
                ELSE savedWords[i] = w
          /\ (\A i \in 1..Len(lastOp.prev) : lastOp.prev[i].id # lastOp.id) =>
                savedWords = lastOp.prev

\* a failed quiz on a word whose counter is 0, next to a word with another id
C30_Witness ==
    /\ lastOp.op = "quiz"
    /\ ~lastOp.success
    /\ Len(lastOp.prev) = 2
    /\ \E i, j \in 1..2 :
          /\ lastOp.prev[i].id = lastOp.id
          /\ lastOp.prev[i].reviewCount = 0
          /\ lastOp.prev[j].id # lastOp.id
          /\ savedWords[i].reviewCount = 0

\* C25: the exam stage changes only along intro -> loading, loading -> active,
\* loading -> intro, active -> result and result -> intro; an ExamResult is
\* recorded exactly once at each active -> result change, at the front of the
\* results, and at no other time.
C25_StageFlow ==
    [][ /\ stage' # stage =>
              <<stage, stage'>> \in
                 {<<"intro", "loading">>, <<"loading", "active">>,
                  <<"loading", "intro">>, <<"active", "result">>,
                  <<"result", "intro">>}
        /\ IF stage = "active" /\ stage' = "result"
           THEN /\ Len(examResults') = Len(examResults) + 1
                /\ Tail(examResults') = examResults
           ELSE examResults' = examResults ]_vars

\* a second exam run has been finished and recorded
C25_Witness ==
    /\ stage = "result"
    /\ Len(examResults) = 2

\* C27: in every exam run the exam starts at the first question: while the
\* exam is active on a paper with questions, the questions before the current
\* one are answered and the current one exists, and when the result is computed
\* no answer is -1.
C27_EveryQuestionAnswered ==
    /\ stage = "active" /\ questions # <<>> =>
          /\ currentQIndex < Len(questions)
          /\ \A i \in 1..Len(answers) : i <= currentQIndex => answers[i] # -1
    /\ stage = "result" => \A i \in 1..Len(answers) : answers[i] # -1

\* C22: after the effects of any mutation of the articles or of the saved
\* words have run, wordsLearned is the number of saved words and articlesRead
\* the number of articles; a level assessment that is pending or that
\* completes never changes these two counters.
C22_CountersFollowCollections ==
    [][ /\ userStats'.wordsLearned = Len(savedWords')
        /\ userStats'.articlesRead = Len(articles')
        /\ Len(pending') < Len(pending) =>
              /\ userStats'.wordsLearned = userStats.wordsLearned
              /\ userStats'.articlesRead = userStats.articlesRead ]_vars

\* an assessment has completed over a collection of words and an article
C22_Witness ==
    /\ effect.handler = "updateLevel"
    /\ userStats.estimatedLevel = <<"B1">>
    /\ userStats.wordsLearned = LevelInterval
    /\ userStats.articlesRead = 1

\* C29: when several level assessments were in flight at once and all have
\* completed, the level shown is the one returned by the assessment that was
\* started last, whatever the order the responses arrived in.
C29_LastStartedLevelShown ==
    pending = <<>> => userStats.estimatedLevel = race.newest

\* C21: once the App has mounted, after the effects of any mutation have run
\* the six persisted entries are the serialised articles, saved words,
\* language, notes, exam results and AI settings held in memory; and mounting
\* leaves every entry that was stored as it was, so that stored data ends up in
\* memory and in storage instead of being replaced by the initial values.
C21_StorageMirrorsMemory ==
    [][ /\ mounted' =>
              storage' = Persist(articles', savedWords', lang', notes', examResults',
                                 aiSettings')
        /\ ~mounted /\ mounted' =>
              \A key \in StorageKeys :
                  Stored(storage[key]) => storage'[key] = storage[key] ]_vars

\* the App has mounted over the words, language and settings of an earlier session
C21_Witness ==
    /\ mounted
    /\ effect.handler = "mount"
    /\ Len(savedWords) = LevelInterval
    /\ lang = "en"
    /\ aiSettings.provider = "custom"
    /\ storage.lf_words = Item(JSONstringifyArray(savedWords))

\* C26: the chat transcript is append-only and ordered: a step only appends to
\* it; after the greeting the messages alternate user, assistant, so that each
\* sent user message is followed by exactly one assistant message (the reply
\* or an error notice) before any further user message, and a reply is awaited
\* exactly while the last message is the user's.
C26_OneReplyPerUserMessage ==
    [][ /\ Len(chat'.messages) >= Len(chat.messages)
        /\ SubSeq(chat'.messages, 1, Len(chat.messages)) = chat.messages
        /\ \A i \in 1..Len(chat'.messages) :
              chat'.messages[i].role = IF i % 2 = 1 THEN "model" ELSE "user"
        /\ chat'.isTyping <=> chat'.messages[Len(chat'.messages)].role = "user"
        /\ Len(chat'.awaited) = IF chat'.isTyping THEN 1 ELSE 0 ]_vars

\* two messages were sent: the first got the error notice, the second a reply
C26_Witness ==
    /\ Len(chat.messages) = 5
    /\ chat.messages[3].text = SorryText
    /\ chat.messages[5].text = <<"B1">>

\* C28: in the article reader a definition that is displayed is the definition
\* of the word that is currently selected, and a definition is saved only
\* under the selection it was looked up for: the response to an earlier
\* selection never shows under, nor is saved for, a newer selection.
C28_DefinitionOfSelectedWord ==
    /\ reader.selectedWord # "none" /\ ~reader.loading /\ reader.definition # "none"
          => reader.definition = reader.selectedWord
    /\ reader.saved.word = reader.saved.selectedWord

\* C23: the quiz timer starts a quiz only when at least three saved words
\* exist and no quiz is displayed; a timer that fires while a quiz is displayed
\* or being generated does nothing, so that at most one quiz is displayed or in
\* generation at any time.
C23_OneQuizAtATime ==
    /\ Len(quiz.awaited) <= 1
    /\ quiz.isVisible /\ ~quiz.loading /\ quiz.question # 0
          => quiz.question = quiz.targetWordId

\* C24: whenever at least three saved words exist and no quiz is displayed, the
\* quiz timer is pending; the timer that is pending was set by the latest
\* render (every change of the words or of the visibility replaces it) and
\* never with fewer than three words; and when the word list keeps at least
\* three words (no word is saved or deleted any more), every such state is
\* followed by a quiz being triggered, also after a quiz was closed, answered
\* or failed to generate.
C24_QuizEventuallyTriggered ==
    /\ [](quiz.timer.pending =>
             Len(savedWords) >= QuizMinWords /\ quiz.timer.isVisible = quiz.isVisible)
    /\ [](Len(savedWords) >= QuizMinWords /\ ~quiz.isVisible => quiz.timer.pending)
    /\ (<>[](Len(savedWords) >= QuizMinWords) =>
          ((Len(savedWords) >= QuizMinWords /\ ~quiz.isVisible) ~> quiz.isVisible))

\* a quiz was answered and closed, the words are three and a timer is pending
C24_Witness ==
    /\ Len(savedWords) >= QuizMinWords
    /\ ~quiz.isVisible
    /\ quiz.timer.pending
    /\ \E i \in 1..Len(savedWords) : savedWords[i].reviewCount > 0

====
